---- MODULE Spec2Model ----
(***************************************************************************)
(* A model of the ogmo3 crate: the Level and Project documents, their      *)
(* decoding (from_json) and encoding (to_json) as derived by serde from    *)
(* the type declarations of level.rs and project.rs, and the lazy          *)
(* unpack iterators of the tile, tile-coords and grid layers.              *)
(*                                                                         *)
(* A JSON text is modelled as the tree of values it denotes, objects       *)
(* keeping the order of their entries (the decoder reads them in order).   *)
(* Numbers are integer valued and carry the form of their literal          *)
(* ("int" for 5, "float" for 5.0), which is what an i32 field and an f32   *)
(* field tell apart.                                                       *)
(***************************************************************************)
EXTENDS Integers, Sequences, FiniteSets, TLC

VARIABLES
    doc,      \* the text handed to from_json, as a JSON tree
    level,    \* the result of Level::from_json: Pending, Ok(level) or Err
    project,  \* the result of Project::from_json: Pending, Ok(project) or Err
    json,     \* the result of to_json: Pending or Ok(text as a JSON tree)
    round,    \* how many times the output was fed back to from_json
    build,    \* "debug" (overflow checks on) or "release" (wrapping arithmetic)
    iter,     \* the iterator returned by unpack: NoIter or its position
    records,  \* the records the iterator has yielded so far
    earlier   \* an iterator of an earlier call that is still held, with its records

vars == <<doc, level, project, json, round, build, iter, records, earlier>>

----------------------------------------------------------------------------
(* Results and options *)

Pending == [pending |-> TRUE]
Ok(v) == [ok |-> v]
Err == [err |-> "Json"]
IsOk(r) == "ok" \in DOMAIN r
IsErr(r) == "err" \in DOMAIN r
IsPending(r) == "pending" \in DOMAIN r

None == [none |-> TRUE]
Some(v) == [some |-> v]
IsSome(o) == "some" \in DOMAIN o
IsNone(o) == "none" \in DOMAIN o

----------------------------------------------------------------------------
(* JSON trees *)

JNull == [null |-> TRUE]
JBool(b) == [bool |-> b]
JInt(n) == [num |-> n, lit |-> "int"]
JFloat(n) == [num |-> n, lit |-> "float"]
\* The literal <m>e<e>, the number m * 10^e
JExp(m, e) == [num |-> m, exp |-> e, lit |-> "float"]
JStr(s) == [str |-> s]
JArr(s) == [arr |-> s]
JObj(pairs) == [obj |-> pairs]

IsNull(j) == "null" \in DOMAIN j
IsBool(j) == "bool" \in DOMAIN j
IsNum(j) == "num" \in DOMAIN j
IsStr(j) == "str" \in DOMAIN j
IsArr(j) == "arr" \in DOMAIN j
IsObj(j) == "obj" \in DOMAIN j

\* The keys of an object's entries, and the entries under one key.
Keys(o) == {o[i][1] : i \in DOMAIN o}
Has(o, k) == k \in Keys(o)
First(o, k) == o[CHOOSE i \in DOMAIN o : o[i][1] = k /\ \A h \in DOMAIN o : o[h][1] = k => i <= h][2]
Last(o, k) == o[CHOOSE i \in DOMAIN o : o[i][1] = k /\ \A h \in DOMAIN o : o[h][1] = k => h <= i][2]

RECURSIVE Concat(_)
Concat(ss) == IF ss = <<>> THEN <<>> ELSE Head(ss) \o Concat(Tail(ss))

RECURSIVE SetToSeq(_)
SetToSeq(S) == IF S = {} THEN <<>> ELSE LET x == CHOOSE x \in S : TRUE IN <<x>> \o SetToSeq(S \ {x})

\* The generic value tree of a text (serde_json::Value): an object is a map from
\* its keys (a repeated key keeps its last value), and a number is its value,
\* whatever the form of its literal.
RECURSIVE Tree(_)
Tree(j) ==
    IF IsObj(j) THEN [map |-> [k \in Keys(j.obj) |-> Tree(Last(j.obj, k))]]
    ELSE IF IsArr(j) THEN [arr |-> [i \in DOMAIN j.arr |-> Tree(j.arr[i])]]
    ELSE IF IsNum(j) THEN (IF "exp" \in DOMAIN j THEN [num |-> j.num, exp |-> j.exp]
                                                  ELSE [num |-> j.num])
    ELSE j

----------------------------------------------------------------------------
(* Numbers *)

MaxI32 == 2147483647
MinI32 == (-MaxI32) - 1
F32Mantissa == 16777216

Abs(n) == IF n < 0 THEN -n ELSE n

\* `v as f32`: the nearest value with a 24 bit mantissa, ties to even. The
\* model's documents keep |n| <= 2 * F32Mantissa, where the shortest decimal
\* serde_json prints for an f32 denotes that f32 exactly.
RECURSIVE Ulp(_)
Ulp(m) == IF m < F32Mantissa THEN 1 ELSE 2 * Ulp(m \div 2)

AsF32(n) ==
    LET m == Abs(n)
        u == Ulp(m)
        q == m \div u
        r == m % u
        up == (2 * r > u) \/ (2 * r = u /\ q % 2 = 1)
        a == (IF up THEN q + 1 ELSE q) * u
    IN  IF n < 0 THEN -a ELSE a

\* f32::INFINITY and, negated, f32::NEG_INFINITY: the model writes them as an
\* integer that no f32 is (the f32 next to 2^31 - 1 is 2^31)
F32Infinity == MaxI32

\* f32::MAX = 3.4028235e38 < 10^39
F32MaxExp10 == 38

RECURSIVE Pow10(_)
Pow10(e) == IF e = 0 THEN 1 ELSE 10 * Pow10(e - 1)

\* The f32 of a JSON number: serde_json parses the literal to an f64 and the
\* visitor of f32 converts it with `as f32`, which rounds to the nearest f32
\* and gives an infinity for a magnitude beyond f32::MAX
F64AsF32(j) ==
    IF "exp" \notin DOMAIN j THEN AsF32(j.num)
    ELSE IF j.num = 0 THEN 0
    ELSE IF j.exp > F32MaxExp10 THEN (IF j.num < 0 THEN -F32Infinity ELSE F32Infinity)
    ELSE AsF32(j.num * Pow10(j.exp))

\* serde_json writes an f32 that is not finite as null
IsFinite(v) == Abs(v) # F32Infinity

----------------------------------------------------------------------------
(* Type descriptions: what #[derive(Deserialize, Serialize)] reads off a     *)
(* declaration. A field is its Rust name, its key in the document (after    *)
(* rename_all = "camelCase" and rename), its type and its serde attributes. *)

StringT == [t |-> "String"]
PathBufT == [t |-> "String"]
BoolT == [t |-> "bool"]
I32T == [t |-> "i32"]
F32T == [t |-> "f32"]
VecT(ty) == [t |-> "Vec", of |-> ty]
OptionT(ty) == [t |-> "Option", of |-> ty]
HashMapT(ty) == [t |-> "HashMap", of |-> ty]
ReprT(vs) == [t |-> "repr", values |-> vs]
StructT(n, fs) == [t |-> "struct", name |-> n, tag |-> None, fields |-> fs]
TaggedStructT(n, key, val, fs) == [t |-> "struct", name |-> n, tag |-> Some(<<key, val>>), fields |-> fs]
UntaggedT(n, vs) == [t |-> "untagged", name |-> n, variants |-> vs]
TaggedT(n, key, vs) == [t |-> "tagged", name |-> n, tag |-> key, variants |-> vs]
StorageT(n, vs) == [t |-> "storage", name |-> n, variants |-> vs]

Field(n, k, ty) == [name |-> n, key |-> k, ty |-> ty, attrs |-> {}]
FieldDefault(n, k, ty) == [name |-> n, key |-> k, ty |-> ty, attrs |-> {"default"}]
FieldSkipNone(n, k, ty) == [name |-> n, key |-> k, ty |-> ty, attrs |-> {"skip_serializing_if_none"}]
FieldFlatten(n, ty) == [name |-> n, key |-> "", ty |-> ty, attrs |-> {"flatten"}]
Variant(n, ty) == [name |-> n, ty |-> ty]
KeyedVariant(n, k, ty) == [name |-> n, key |-> k, ty |-> ty]

IsFlatten(f) == "flatten" \in f.attrs

\* HashMap::default(), the value of a #[serde(default)] map that is absent.
EmptyMap == <<>>

\* A struct value is a function from the Rust field names; an enum value is a
\* one-field record named after the variant.
MkStruct(fs, vals) == [n \in {fs[i].name : i \in DOMAIN fs} |-> vals[CHOOSE i \in DOMAIN fs : fs[i].name = n]]
MkVariant(n, v) == [x \in {n} |-> v]
VariantOf(vs, v) == CHOOSE i \in DOMAIN vs : vs[i].name \in DOMAIN v

----------------------------------------------------------------------------
(* Decoding: serde_json::from_str at a type. The derived decoders of an     *)
(* untagged enum, of an internally tagged enum and of a flattened field     *)
(* first buffer the value and decode from the buffer; `buffered` tells the  *)
(* two ways apart where they differ.                                        *)

RECURSIVE DecodeFrom(_, _, _)

\* A sequence decoder that leaves out the elements that fail
DecodeVec_SkipFailed(ty, arr, buffered) ==
    LET rs == [i \in DOMAIN arr |-> DecodeFrom(ty, arr[i], buffered)]
        good == SelectSeq(rs, IsOk)
    IN  Ok([i \in DOMAIN good |-> good[i].ok])

\* Vec<T>: every element decodes, or the sequence does not
DecodeVec(ty, arr, buffered) ==
    LET rs == [i \in DOMAIN arr |-> DecodeFrom(ty, arr[i], buffered)]
    IN  IF \A i \in DOMAIN arr : IsOk(rs[i]) THEN Ok([i \in DOMAIN arr |-> rs[i].ok]) ELSE Err

DecodeMap(ty, o, buffered) ==
    LET rs == [k \in Keys(o) |-> DecodeFrom(ty, Last(o, k), buffered)]
    IN  IF \E i \in DOMAIN o : ~IsOk(DecodeFrom(ty, o[i][2], buffered)) THEN Err
        ELSE Ok([k \in Keys(o) |-> rs[k].ok])

\* A slip in the operator below: a storage decoder that reads `arrayMode`
\* and refuses a value that is not a number.
DecodeFlattened_ReadsArrayMode(ty, rest) ==
    LET vkeys == {ty.variants[i].key : i \in DOMAIN ty.variants}
        hits == {i \in DOMAIN rest : rest[i][1] \in vkeys}
    IN  IF hits = {} \/ \E i \in DOMAIN rest : rest[i][1] = "arrayMode" /\ ~IsNum(rest[i][2]) THEN Err
        ELSE LET i == CHOOSE i \in hits : \A h \in hits : i <= h
                 v == CHOOSE v \in DOMAIN ty.variants : ty.variants[v].key = rest[i][1]
                 r == DecodeFrom(ty.variants[v].ty, rest[i][2], TRUE)
             IN  IF IsOk(r) THEN Ok(MkVariant(ty.variants[v].name, r.ok)) ELSE Err

\* A flattened, externally tagged enum takes the first entry, among those no
\* named field claimed, whose key names one of its variants.
DecodeFlattened(ty, rest) ==
    LET vkeys == {ty.variants[i].key : i \in DOMAIN ty.variants}
        hits == {i \in DOMAIN rest : rest[i][1] \in vkeys}
    IN  IF hits = {} THEN Err
        ELSE LET i == CHOOSE i \in hits : \A h \in hits : i <= h
                 v == CHOOSE v \in DOMAIN ty.variants : ty.variants[v].key = rest[i][1]
                 r == DecodeFrom(ty.variants[v].ty, rest[i][2], TRUE)
             IN  IF IsOk(r) THEN Ok(MkVariant(ty.variants[v].name, r.ok)) ELSE Err

\* A field decoder that knows no #[serde(default)]
DecodeField_NoDefault(f, o, known, buffered) ==
    IF IsFlatten(f) THEN DecodeFlattened(f.ty, SelectSeq(o, LAMBDA p : p[1] \notin known))
    ELSE IF Has(o, f.key) THEN DecodeFrom(f.ty, First(o, f.key), buffered)
    ELSE IF f.ty.t = "Option" THEN Ok(None)
    ELSE Err

\* A field of a struct, read from the object o
DecodeField(f, o, known, buffered) ==
    IF IsFlatten(f) THEN DecodeFlattened(f.ty, SelectSeq(o, LAMBDA p : p[1] \notin known))
    ELSE IF Has(o, f.key) THEN DecodeFrom(f.ty, First(o, f.key), buffered)
    ELSE IF f.ty.t = "Option" THEN Ok(None)
    ELSE IF "default" \in f.attrs THEN Ok(EmptyMap)
    ELSE Err

\* A struct: an unknown key is skipped, a named field given twice is an error,
\* a missing field is an error unless it is an Option or has a default. The
\* `tag` of a struct is written by the encoder and not read by the decoder.
DecodeStruct(ty, o, buffered) ==
    LET fs == ty.fields
        known == {fs[i].key : i \in {i \in DOMAIN fs : ~IsFlatten(fs[i])}}
        dup == \E i, h \in DOMAIN o : i < h /\ o[i][1] = o[h][1] /\ o[i][1] \in known
        rs == [i \in DOMAIN fs |-> DecodeField(fs[i], o, known, buffered)]
    IN  IF dup \/ \E i \in DOMAIN fs : ~IsOk(rs[i]) THEN Err
        ELSE Ok(MkStruct(fs, [i \in DOMAIN fs |-> rs[i].ok]))

\* A struct also decodes from an array, its fields in the order of the
\* declaration: a missing element is an error unless the field has a default,
\* an element too many is an error. A struct with a flattened field decodes
\* from an object only.
DecodeStructSeq(ty, arr, buffered) ==
    LET fs == ty.fields
        rs == [i \in DOMAIN fs |->
                    IF i <= Len(arr) THEN DecodeFrom(fs[i].ty, arr[i], buffered)
                    ELSE IF "default" \in fs[i].attrs THEN Ok(EmptyMap)
                    ELSE Err]
    IN  IF \/ \E i \in DOMAIN fs : IsFlatten(fs[i])
           \/ Len(arr) > Len(fs)
           \/ \E i \in DOMAIN fs : ~IsOk(rs[i])
        THEN Err
        ELSE Ok(MkStruct(fs, [i \in DOMAIN fs |-> rs[i].ok]))

\* A matcher that commits to the last variant that decodes
DecodeUntagged_LastMatch(ty, j) ==
    LET vs == ty.variants
        rs == [i \in DOMAIN vs |-> DecodeFrom(vs[i].ty, j, TRUE)]
        oks == {i \in DOMAIN vs : IsOk(rs[i])}
    IN  IF oks = {} THEN Err
        ELSE LET i == CHOOSE i \in oks : \A h \in oks : i >= h
             IN  Ok(MkVariant(vs[i].name, rs[i].ok))

\* An untagged enum buffers the value and commits to the first variant that
\* decodes from the buffer.
DecodeUntagged(ty, j) ==
    LET vs == ty.variants
        rs == [i \in DOMAIN vs |-> DecodeFrom(vs[i].ty, j, TRUE)]
        oks == {i \in DOMAIN vs : IsOk(rs[i])}
    IN  IF oks = {} THEN Err
        ELSE LET i == CHOOSE i \in oks : \A h \in oks : i <= h
             IN  Ok(MkVariant(vs[i].name, rs[i].ok))

\* The variants a tag value names: a string names the variant of that name;
\* read from a buffer, a non-negative integer names the variant at that index.
VariantsNamed(ty, tag, buffered) ==
    {v \in DOMAIN ty.variants :
        \/ tag = JStr(ty.variants[v].name)
        \/ buffered /\ IsNum(tag) /\ tag.lit = "int" /\ tag.num = v - 1}

\* An internally tagged enum reads the tag, buffers the rest and decodes the
\* variant from the buffer.
DecodeTagged(ty, o, buffered) ==
    LET tags == {i \in DOMAIN o : o[i][1] = ty.tag}
        named == UNION {VariantsNamed(ty, o[i][2], buffered) : i \in tags}
    IN  IF Cardinality(tags) # 1 \/ named = {} THEN Err
        ELSE LET v == CHOOSE v \in named : TRUE
                 r == DecodeFrom(ty.variants[v].ty, JObj(SelectSeq(o, LAMBDA p : p[1] # ty.tag)), TRUE)
             IN  IF IsOk(r) THEN Ok(MkVariant(ty.variants[v].name, r.ok)) ELSE Err

\* From an array, the first element is the tag and the rest is the variant.
DecodeTaggedSeq(ty, arr, buffered) ==
    LET named == IF arr = <<>> THEN {} ELSE VariantsNamed(ty, arr[1], buffered)
    IN  IF named = {} THEN Err
        ELSE LET v == CHOOSE v \in named : TRUE
                 r == DecodeFrom(ty.variants[v].ty, JArr(Tail(arr)), TRUE)
             IN  IF IsOk(r) THEN Ok(MkVariant(ty.variants[v].name, r.ok)) ELSE Err

DecodeFrom(ty, j, buffered) ==
    CASE ty.t = "f32" -> IF IsNum(j) THEN Ok(F64AsF32(j)) ELSE Err
      [] ty.t = "i32" -> IF IsNum(j) /\ j.lit = "int" /\ j.num >= MinI32 /\ j.num <= MaxI32
                         THEN Ok(j.num) ELSE Err
      [] ty.t = "repr" -> IF IsNum(j) /\ j.lit = "int" /\ j.num \in ty.values THEN Ok(j.num) ELSE Err
      [] ty.t = "bool" -> IF IsBool(j) THEN Ok(j.bool) ELSE Err
      [] ty.t = "String" -> IF IsStr(j) THEN Ok(j.str) ELSE Err
      [] ty.t = "Vec" -> IF IsArr(j) THEN DecodeVec(ty.of, j.arr, buffered) ELSE Err
      [] ty.t = "Option" -> IF IsNull(j) THEN Ok(None)
                            ELSE LET r == DecodeFrom(ty.of, j, buffered)
                                 IN  IF IsOk(r) THEN Ok(Some(r.ok)) ELSE Err
      [] ty.t = "HashMap" -> IF IsObj(j) THEN DecodeMap(ty.of, j.obj, buffered) ELSE Err
      [] ty.t = "struct" -> IF IsObj(j) THEN DecodeStruct(ty, j.obj, buffered)
                            ELSE IF IsArr(j) THEN DecodeStructSeq(ty, j.arr, buffered)
                            ELSE Err
      [] ty.t = "untagged" -> DecodeUntagged(ty, j)
      [] ty.t = "tagged" -> IF IsObj(j) THEN DecodeTagged(ty, j.obj, buffered)
                            ELSE IF IsArr(j) THEN DecodeTaggedSeq(ty, j.arr, buffered)
                            ELSE Err

\* serde_json::from_str(s)
Decode(ty, j) == DecodeFrom(ty, j, FALSE)

----------------------------------------------------------------------------
(* Encoding: serde_json::to_string at a type *)

RECURSIVE Encode(_, _)

\* A slip in the impl below: both arms write arrayMode 0.
TileLayerStorage_serialize_ArrayModeZero(ty, self) ==
    IF "Data" \in DOMAIN self
    THEN << <<"data", Encode(ty.variants[1].ty, self.Data)>>,
            <<"exportMode", JInt(0)>>,
            <<"arrayMode", JInt(0)>> >>
    ELSE << <<"data2D", Encode(ty.variants[2].ty, self.Data2D)>>,
            <<"exportMode", JInt(0)>>,
            <<"arrayMode", JInt(0)>> >>

\* impl Serialize for TileLayerStorage
TileLayerStorage_serialize(ty, self) ==
    IF "Data" \in DOMAIN self
    THEN << <<"data", Encode(ty.variants[1].ty, self.Data)>>,
            <<"exportMode", JInt(0)>>,
            <<"arrayMode", JInt(0)>> >>
    ELSE << <<"data2D", Encode(ty.variants[2].ty, self.Data2D)>>,
            <<"exportMode", JInt(0)>>,
            <<"arrayMode", JInt(1)>> >>

\* A slip in the impl below: the exportMode of the tile layer, copied.
TileCoordsLayerStorage_serialize_ExportModeIds(ty, self) ==
    IF "DataCoords" \in DOMAIN self
    THEN << <<"dataCoords", Encode(ty.variants[1].ty, self.DataCoords)>>,
            <<"exportMode", JInt(0)>>,
            <<"arrayMode", JInt(0)>> >>
    ELSE << <<"dataCoords2D", Encode(ty.variants[2].ty, self.DataCoords2D)>>,
            <<"exportMode", JInt(0)>>,
            <<"arrayMode", JInt(1)>> >>

\* impl Serialize for TileCoordsLayerStorage
TileCoordsLayerStorage_serialize(ty, self) ==
    IF "DataCoords" \in DOMAIN self
    THEN << <<"dataCoords", Encode(ty.variants[1].ty, self.DataCoords)>>,
            <<"exportMode", JInt(1)>>,
            <<"arrayMode", JInt(0)>> >>
    ELSE << <<"dataCoords2D", Encode(ty.variants[2].ty, self.DataCoords2D)>>,
            <<"exportMode", JInt(1)>>,
            <<"arrayMode", JInt(1)>> >>

\* impl Serialize for GridLayerStorage
GridLayerStorage_serialize(ty, self) ==
    IF "Grid" \in DOMAIN self
    THEN << <<"grid", Encode(ty.variants[1].ty, self.Grid)>>,
            <<"arrayMode", JInt(0)>> >>
    ELSE << <<"grid2D", Encode(ty.variants[2].ty, self.Grid2D)>>,
            <<"arrayMode", JInt(1)>> >>

SerializeStorage(ty, self) ==
    CASE ty.name = "TileLayerStorage" -> TileLayerStorage_serialize(ty, self)
      [] ty.name = "TileCoordsLayerStorage" -> TileCoordsLayerStorage_serialize(ty, self)
      [] ty.name = "GridLayerStorage" -> GridLayerStorage_serialize(ty, self)

\* A slip in the operator below: skip_serializing_if forgotten, a None is
\* written as null.
EncodeField_NoSkip(f, v) ==
    IF IsFlatten(f) THEN SerializeStorage(f.ty, v)
    ELSE << <<f.key, Encode(f.ty, v)>> >>

\* A slip in the operator below: an optional field is never written.
EncodeField_SkipOptions(f, v) ==
    IF IsFlatten(f) THEN SerializeStorage(f.ty, v)
    ELSE IF f.ty.t = "Option" THEN <<>>
    ELSE << <<f.key, Encode(f.ty, v)>> >>

\* One field of a struct: nothing for a None under skip_serializing_if, the
\* entries of a flattened storage, and one entry otherwise.
EncodeField(f, v) ==
    IF IsFlatten(f) THEN SerializeStorage(f.ty, v)
    ELSE IF "skip_serializing_if_none" \in f.attrs /\ IsNone(v) THEN <<>>
    ELSE << <<f.key, Encode(f.ty, v)>> >>

\* A slip in the operator below: the tag of a struct is not written.
EncodeStruct_NoTag(ty, v) ==
    Concat([i \in DOMAIN ty.fields |-> EncodeField(ty.fields[i], v[ty.fields[i].name])])

\* A struct is written as an object: its tag first, if it has one, then its
\* fields in the order of the declaration.
EncodeStruct(ty, v) ==
    (IF IsSome(ty.tag) THEN << <<ty.tag.some[1], JStr(ty.tag.some[2])>> >> ELSE <<>>)
        \o Concat([i \in DOMAIN ty.fields |-> EncodeField(ty.fields[i], v[ty.fields[i].name])])

EncodeMap(ty, m) ==
    LET ks == SetToSeq(DOMAIN m)
    IN  [i \in DOMAIN ks |-> <<ks[i], Encode(ty, m[ks[i]])>>]

Encode(ty, v) ==
    CASE ty.t = "f32" -> IF IsFinite(v) THEN JFloat(v) ELSE JNull
      [] ty.t = "i32" -> JInt(v)
      [] ty.t = "repr" -> JInt(v)
      [] ty.t = "bool" -> JBool(v)
      [] ty.t = "String" -> JStr(v)
      [] ty.t = "Vec" -> JArr([i \in DOMAIN v |-> Encode(ty.of, v[i])])
      [] ty.t = "Option" -> IF IsNone(v) THEN JNull ELSE Encode(ty.of, v.some)
      [] ty.t = "HashMap" -> JObj(EncodeMap(ty.of, v))
      [] ty.t = "struct" -> JObj(EncodeStruct(ty, v))
      [] ty.t = "untagged" -> LET i == VariantOf(ty.variants, v)
                              IN  Encode(ty.variants[i].ty, v[ty.variants[i].name])
      [] ty.t = "tagged" -> LET i == VariantOf(ty.variants, v)
                            IN  JObj(<< <<ty.tag, JStr(ty.variants[i].name)>> >>
                                     \o EncodeStruct(ty.variants[i].ty, v[ty.variants[i].name]))

\* A slip in the operator below: a storage written as a sequence.
StorageSerializer_Seq(ty) == "seq"

\* What the impl Serialize of a storage asks the serializer for:
\* serializer.serialize_struct(..) in all three
StorageSerializer(ty) ==
    CASE ty.name = "TileLayerStorage" -> "struct"
      [] ty.name = "TileCoordsLayerStorage" -> "struct"
      [] ty.name = "GridLayerStorage" -> "struct"

\* A #[serde(flatten)] field is written into the object of its struct: it
\* has to be a struct or a map itself, a sequence or a scalar is an error.
Flattens(kind) == kind \in {"struct", "map"}

\* serde_json::to_string succeeds. A number is always written (a float that
\* is not finite as null) and the keys of the maps are strings; a path is
\* written where it is valid UTF-8, as every path read from a JSON string
\* is; the variant of an internally tagged enum has to be a struct.
RECURSIVE Serializes(_, _)
Serializes(ty, v) ==
    CASE ty.t \in {"f32", "i32", "repr", "bool", "String"} -> TRUE
      [] ty.t = "Vec" -> \A i \in DOMAIN v : Serializes(ty.of, v[i])
      [] ty.t = "Option" -> IsNone(v) \/ Serializes(ty.of, v.some)
      [] ty.t = "HashMap" -> \A k \in DOMAIN v : Serializes(ty.of, v[k])
      [] ty.t = "struct" ->
            \A i \in DOMAIN ty.fields :
                LET f == ty.fields[i]
                IN  IF IsFlatten(f)
                    THEN /\ Flattens(StorageSerializer(f.ty))
                         /\ LET n == VariantOf(f.ty.variants, v[f.name])
                            IN  Serializes(f.ty.variants[n].ty, v[f.name][f.ty.variants[n].name])
                    ELSE Serializes(f.ty, v[f.name])
      [] ty.t = "untagged" -> LET i == VariantOf(ty.variants, v)
                              IN  Serializes(ty.variants[i].ty, v[ty.variants[i].name])
      [] ty.t = "tagged" -> LET i == VariantOf(ty.variants, v)
                            IN  /\ ty.variants[i].ty.t = "struct"
                                /\ Serializes(ty.variants[i].ty, v[ty.variants[i].name])

----------------------------------------------------------------------------
(* The types of level.rs and lib.rs *)

Vec2(ty) == StructT("Vec2", << Field("x", "x", ty), Field("y", "y", ty) >>)

Value ==
    UntaggedT("Value", <<
        Variant("Boolean", BoolT),
        Variant("String", StringT),
        Variant("Number", F32T) >>)

Entity ==
    StructT("Entity", <<
        Field("name", "name", StringT),
        Field("id", "id", I32T),
        Field("export_id", "_eid", StringT),
        Field("x", "x", F32T),
        Field("y", "y", F32T),
        FieldSkipNone("width", "width", OptionT(F32T)),
        FieldSkipNone("height", "height", OptionT(F32T)),
        FieldSkipNone("origin_x", "originX", OptionT(F32T)),
        FieldSkipNone("origin_y", "originY", OptionT(F32T)),
        FieldSkipNone("rotation", "rotation", OptionT(F32T)),
        FieldSkipNone("flipped_x", "flippedX", OptionT(BoolT)),
        FieldSkipNone("flipped_y", "flippedY", OptionT(BoolT)),
        FieldSkipNone("nodes", "nodes", OptionT(VecT(Vec2(F32T)))),
        FieldSkipNone("values", "values", OptionT(HashMapT(Value))) >>)

Decal ==
    StructT("Decal", <<
        Field("x", "x", F32T),
        Field("y", "y", F32T),
        FieldSkipNone("scale_x", "scaleX", OptionT(F32T)),
        FieldSkipNone("scale_y", "scaleY", OptionT(F32T)),
        FieldSkipNone("rotation", "rotation", OptionT(F32T)),
        Field("texture", "texture", StringT),
        Field("values", "values", HashMapT(Value)) >>)

\* The eight fields every layer struct declares first.
LayerFields ==
    <<  Field("name", "name", StringT),
        Field("export_id", "_eid", StringT),
        Field("offset_x", "offsetX", F32T),
        Field("offset_y", "offsetY", F32T),
        Field("grid_cell_width", "gridCellWidth", I32T),
        Field("grid_cell_height", "gridCellHeight", I32T),
        Field("grid_cells_x", "gridCellsX", I32T),
        Field("grid_cells_y", "gridCellsY", I32T) >>

TileLayerStorage ==
    StorageT("TileLayerStorage", <<
        KeyedVariant("Data", "data", VecT(I32T)),
        KeyedVariant("Data2D", "data2D", VecT(VecT(I32T))) >>)

TileLayer ==
    StructT("TileLayer", LayerFields \o <<
        Field("tileset", "tileset", StringT),
        FieldFlatten("data", TileLayerStorage) >>)

TileCoordsLayerStorage ==
    StorageT("TileCoordsLayerStorage", <<
        KeyedVariant("DataCoords", "dataCoords", VecT(VecT(I32T))),
        KeyedVariant("DataCoords2D", "dataCoords2D", VecT(VecT(VecT(I32T)))) >>)

TileCoordsLayer ==
    StructT("TileCoordsLayer", LayerFields \o <<
        Field("tileset", "tileset", StringT),
        FieldFlatten("data", TileCoordsLayerStorage) >>)

GridLayerStorage ==
    StorageT("GridLayerStorage", <<
        KeyedVariant("Grid", "grid", VecT(StringT)),
        KeyedVariant("Grid2D", "grid2D", VecT(VecT(StringT))) >>)

GridLayer ==
    StructT("GridLayer", LayerFields \o <<
        FieldFlatten("data", GridLayerStorage) >>)

EntityLayer ==
    StructT("EntityLayer", LayerFields \o <<
        Field("entities", "entities", VecT(Entity)) >>)

DecalLayer ==
    StructT("DecalLayer", LayerFields \o <<
        Field("decals", "decals", VecT(Decal)),
        Field("folder", "folder", PathBufT) >>)

Layer ==
    UntaggedT("Layer", <<
        Variant("Tile", TileLayer),
        Variant("TileCoords", TileCoordsLayer),
        Variant("Grid", GridLayer),
        Variant("Entity", EntityLayer),
        Variant("Decal", DecalLayer) >>)

Level ==
    StructT("Level", <<
        Field("ogmo_version", "ogmoVersion", StringT),
        Field("width", "width", F32T),
        Field("height", "height", F32T),
        Field("offset_x", "offsetX", F32T),
        Field("offset_y", "offsetY", F32T),
        FieldDefault("values", "values", HashMapT(Value)),
        Field("layers", "layers", VecT(Layer)) >>)

Level_from_json(s) == Decode(Level, s)
Level_to_json(self) == IF Serializes(Level, self) THEN Ok(Encode(Level, self)) ELSE Err

----------------------------------------------------------------------------
(* The types of project.rs *)

BooleanValueTemplate ==
    StructT("BooleanValueTemplate", <<
        Field("name", "name", StringT),
        Field("defaults", "defaults", BoolT) >>)

ColorValueTemplate ==
    StructT("ColorValueTemplate", <<
        Field("name", "name", StringT),
        Field("defaults", "defaults", StringT),
        Field("include_alpha", "includeAlpha", BoolT) >>)

EnumValueTemplate ==
    StructT("EnumValueTemplate", <<
        Field("name", "name", StringT),
        Field("defaults", "defaults", I32T),
        Field("choices", "choices", VecT(StringT)) >>)

IntegerValueTemplate ==
    StructT("IntegerValueTemplate", <<
        Field("name", "name", StringT),
        Field("defaults", "defaults", I32T),
        Field("bounded", "bounded", BoolT),
        Field("min", "min", I32T),
        Field("max", "max", I32T) >>)

FloatValueTemplate ==
    StructT("FloatValueTemplate", <<
        Field("name", "name", StringT),
        Field("defaults", "defaults", F32T),
        Field("bounded", "bounded", BoolT),
        Field("min", "min", F32T),
        Field("max", "max", F32T) >>)

StringValueTemplate ==
    StructT("StringValueTemplate", <<
        Field("name", "name", StringT),
        Field("defaults", "defaults", StringT),
        Field("max_length", "maxLength", I32T),
        Field("trim_whitespace", "trimWhitespace", BoolT) >>)

TextValueTemplate ==
    StructT("TextValueTemplate", <<
        Field("name", "name", StringT),
        Field("defaults", "defaults", StringT) >>)

\* #[serde(tag = "definition")]: the variant is named by the `definition` field
ValueTemplate ==
    TaggedT("ValueTemplate", "definition", <<
        Variant("Boolean", BooleanValueTemplate),
        Variant("Color", ColorValueTemplate),
        Variant("Enum", EnumValueTemplate),
        Variant("Integer", IntegerValueTemplate),
        Variant("Float", FloatValueTemplate),
        Variant("String", StringValueTemplate),
        Variant("Text", TextValueTemplate) >>)

\* #[repr(u8)] enums, read and written as their number
ExportMode == ReprT({0, 1})
ArrayMode == ReprT({0, 1})

TileLayerTemplate ==
    TaggedStructT("TileLayerTemplate", "definition", "tile", <<
        Field("name", "name", StringT),
        Field("grid_size", "gridSize", Vec2(I32T)),
        Field("export_id", "exportID", StringT),
        Field("export_mode", "exportMode", ExportMode),
        Field("array_mode", "arrayMode", ArrayMode),
        Field("default_tileset", "defaultTileset", StringT) >>)

GridLayerTemplate ==
    TaggedStructT("GridLayerTemplate", "definition", "grid", <<
        Field("name", "name", StringT),
        Field("grid_size", "gridSize", Vec2(I32T)),
        Field("export_id", "exportID", StringT),
        Field("array_mode", "arrayMode", ArrayMode),
        Field("legend", "legend", HashMapT(StringT)) >>)

EntityLayerTemplate ==
    TaggedStructT("EntityLayerTemplate", "definition", "entity", <<
        Field("name", "name", StringT),
        Field("grid_size", "gridSize", Vec2(I32T)),
        Field("export_id", "exportID", StringT),
        Field("required_tags", "requiredTags", VecT(StringT)),
        Field("excluded_tags", "excludedTags", VecT(StringT)) >>)

DecalLayerTemplate ==
    TaggedStructT("DecalLayerTemplate", "definition", "decal", <<
        Field("name", "name", StringT),
        Field("grid_size", "gridSize", Vec2(I32T)),
        Field("export_id", "exportID", StringT),
        Field("folder", "folder", PathBufT),
        Field("include_image_sequence", "includeImageSequence", BoolT),
        Field("scaleable", "scaleable", BoolT),
        Field("rotatable", "rotatable", BoolT),
        Field("values", "values", VecT(ValueTemplate)) >>)

\* #[serde(untagged)]: told apart by their fields, in this order
LayerTemplate ==
    UntaggedT("LayerTemplate", <<
        Variant("Tile", TileLayerTemplate),
        Variant("Grid", GridLayerTemplate),
        Variant("Entity", EntityLayerTemplate),
        Variant("Decal", DecalLayerTemplate) >>)

Shape ==
    StructT("Shape", <<
        Field("label", "label", StringT),
        Field("points", "points", VecT(Vec2(F32T))) >>)

EntityTemplate ==
    StructT("EntityTemplate", <<
        Field("name", "name", StringT),
        Field("export_id", "exportID", StringT),
        Field("limit", "limit", I32T),
        Field("size", "size", Vec2(F32T)),
        Field("origin", "origin", Vec2(F32T)),
        Field("origin_anchored", "originAnchored", BoolT),
        Field("shape", "shape", Shape),
        Field("color", "color", StringT),
        Field("tile_x", "tileX", BoolT),
        Field("tile_y", "tileY", BoolT),
        Field("tile_size", "tileSize", Vec2(F32T)),
        Field("resizeable_x", "resizeableX", BoolT),
        Field("resizeable_y", "resizeableY", BoolT),
        Field("rotatable", "rotatable", BoolT),
        Field("rotation_degrees", "rotationDegrees", F32T),
        Field("can_flip_x", "canFlipX", BoolT),
        Field("can_flip_y", "canFlipY", BoolT),
        Field("can_set_color", "canSetColor", BoolT),
        Field("has_nodes", "hasNodes", BoolT),
        Field("node_limit", "nodeLimit", I32T),
        Field("node_display", "nodeDisplay", I32T),
        Field("node_ghost", "nodeGhost", BoolT),
        Field("tags", "tags", VecT(StringT)),
        Field("values", "values", VecT(ValueTemplate)),
        FieldSkipNone("texture", "texture", OptionT(StringT)),
        FieldSkipNone("texture_image", "textureImage", OptionT(StringT)) >>)

Tileset ==
    StructT("Tileset", <<
        Field("label", "label", StringT),
        Field("path", "path", PathBufT),
        Field("image", "image", StringT),
        Field("tile_width", "tileWidth", I32T),
        Field("tile_height", "tileHeight", I32T),
        Field("tile_separation_x", "tileSeparationX", I32T),
        Field("tile_separation_y", "tileSeparationY", I32T) >>)

Project ==
    StructT("Project", <<
        Field("name", "name", StringT),
        Field("ogmo_version", "ogmoVersion", StringT),
        Field("level_paths", "levelPaths", VecT(PathBufT)),
        Field("background_color", "backgroundColor", StringT),
        Field("grid_color", "gridColor", StringT),
        Field("angles_radians", "anglesRadians", BoolT),
        Field("directory_depth", "directoryDepth", I32T),
        Field("layer_grid_default_size", "layerGridDefaultSize", Vec2(I32T)),
        Field("level_default_size", "levelDefaultSize", Vec2(I32T)),
        Field("level_min_size", "levelMinSize", Vec2(I32T)),
        Field("level_max_size", "levelMaxSize", Vec2(I32T)),
        Field("level_values", "levelValues", VecT(ValueTemplate)),
        Field("default_export_mode", "defaultExportMode", StringT),
        Field("compact_export", "compactExport", BoolT),
        Field("entity_tags", "entityTags", VecT(StringT)),
        Field("layers", "layers", VecT(LayerTemplate)),
        Field("entities", "entities", VecT(EntityTemplate)),
        Field("tilesets", "tilesets", VecT(Tileset)) >>)

Project_from_json(s) == Decode(Project, s)
Project_to_json(self) == IF Serializes(Project, self) THEN Ok(Encode(Project, self)) ELSE Err

----------------------------------------------------------------------------
(* i32 arithmetic. An overflowing multiplication panics where the build     *)
(* checks overflow (debug) and wraps where it does not (release); a         *)
(* division by zero panics in both.                                         *)

Panic == [panic |-> TRUE]
Val(n) == [val |-> n]
IsPanic(r) == "panic" \in DOMAIN r

\* x + y modulo 2^32, as a signed 32 bit value
WrappingAdd(x, y) ==
    IF x > 0 /\ y > MaxI32 - x THEN (x + MinI32) + (y + MinI32)
    ELSE IF x < 0 /\ y < MinI32 - x THEN (x - MinI32) + (y - MinI32)
    ELSE x + y

WrappingNeg(x) == IF x = MinI32 THEN MinI32 ELSE -x

\* a * b modulo 2^32, as a signed 32 bit value
RECURSIVE WrappingMul(_, _)
WrappingMul(a, b) ==
    IF a = 0 THEN 0
    ELSE IF a = MinI32 THEN (IF b % 2 = 0 THEN 0 ELSE MinI32)
    ELSE IF a < 0 THEN WrappingNeg(WrappingMul(-a, b))
    ELSE LET h == WrappingMul(a \div 2, b)
             d == WrappingAdd(h, h)
         IN  IF a % 2 = 0 THEN d ELSE WrappingAdd(d, b)

\* a / b and a % b of Rust, which truncate towards zero (b # 0, no overflow)
DivI32(a, b) ==
    IF b = MinI32 THEN (IF a = MinI32 THEN 1 ELSE 0)
    ELSE IF a = MinI32 THEN (IF b > 0 THEN -((MaxI32 \div b) + (IF (MaxI32 % b) + 1 = b THEN 1 ELSE 0))
                             ELSE (MaxI32 \div (-b)) + (IF (MaxI32 % (-b)) + 1 = -b THEN 1 ELSE 0))
    ELSE IF (a >= 0) = (b > 0) THEN Abs(a) \div Abs(b)
    ELSE -(Abs(a) \div Abs(b))

RemI32(a, b) == WrappingAdd(a, WrappingNeg(WrappingMul(DivI32(a, b), b)))

MulOverflows(a, b) ==
    /\ a # 0
    /\ b # 0
    /\ \/ (a = -1 /\ b = MinI32)
       \/ (b = -1 /\ a = MinI32)
       \/ (~(a = -1 /\ b = MinI32) /\ ~(b = -1 /\ a = MinI32) /\ DivI32(WrappingMul(a, b), b) # a)

\* a * b
MulI32(b, x, y) ==
    IF MulOverflows(x, y) THEN (IF b = "debug" THEN Panic ELSE Val(WrappingMul(x, y)))
    ELSE Val(x * y)

\* a % b and a / b: a zero divisor panics in every build, and so does the
\* one quotient that leaves i32
CheckedRem(a, b) == IF b = 0 THEN Panic ELSE Val(RemI32(a, b))
CheckedDiv(a, b) == IF b = 0 \/ (a = MinI32 /\ b = -1) THEN Panic ELSE Val(DivI32(a, b))

AddOverflows(x, y) == (x > 0 /\ y > MaxI32 - x) \/ (x < 0 /\ y < MinI32 - x)

\* a + b
AddI32(b, x, y) ==
    IF AddOverflows(x, y) THEN (IF b = "debug" THEN Panic ELSE Val(WrappingAdd(x, y)))
    ELSE Val(x + y)

----------------------------------------------------------------------------
(* unpack: the lazy iterators over a layer's storage. An iterator is the    *)
(* stored entries in storage order with the closure applied to each as it   *)
(* is asked for; applying the closure can panic.                            *)

Yield(r) == [item |-> r]
IsYield(r) == "item" \in DOMAIN r

\* A slip in the operator below: the indices counted from 1.
Enumerate_FromOne(data) == [k \in DOMAIN data |-> <<k, data[k]>>]

\* data.iter().enumerate(): the (index, entry) pairs of a flat storage
Enumerate(data) == [k \in DOMAIN data |-> <<k - 1, data[k]>>]

\* data.iter().enumerate().flat_map(|(y, row)| row.iter().enumerate().map(..)):
\* the ((y, x), entry) pairs of a nested storage, rows outer
EnumerateRows(data) ==
    Concat([r \in DOMAIN data |-> [c \in DOMAIN data[r] |-> << <<r - 1, c - 1>>, data[r][c] >>]])

\* A slip in the operator below: the column and the row exchanged.
FlatPosition_Swapped(self, i, b) ==
    LET grid_x == CheckedDiv(i, self.grid_cells_x)
        grid_y == CheckedRem(i, self.grid_cells_x)
    IN  IF IsPanic(grid_x) \/ IsPanic(grid_y) THEN Panic
        ELSE LET pixel_x == MulI32(b, grid_x.val, self.grid_cell_width)
                 pixel_y == MulI32(b, grid_y.val, self.grid_cell_height)
             IN  IF IsPanic(pixel_x) \/ IsPanic(pixel_y) THEN Panic
                 ELSE Val([grid_position |-> [x |-> grid_x.val, y |-> grid_y.val],
                           pixel_position |-> [x |-> pixel_x.val, y |-> pixel_y.val]])

\* The positions computed for index i of a flat storage
FlatPosition(self, i, b) ==
    LET grid_x == CheckedRem(i, self.grid_cells_x)
        grid_y == CheckedDiv(i, self.grid_cells_x)
    IN  IF IsPanic(grid_x) \/ IsPanic(grid_y) THEN Panic
        ELSE LET pixel_x == MulI32(b, grid_x.val, self.grid_cell_width)
                 pixel_y == MulI32(b, grid_y.val, self.grid_cell_height)
             IN  IF IsPanic(pixel_x) \/ IsPanic(pixel_y) THEN Panic
                 ELSE Val([grid_position |-> [x |-> grid_x.val, y |-> grid_y.val],
                           pixel_position |-> [x |-> pixel_x.val, y |-> pixel_y.val]])

\* A slip in the operator below: the row taken for the column.
NestedPosition_Transposed(self, x, y, b) ==
    LET grid_x == y
        grid_y == x
        pixel_x == MulI32(b, grid_x, self.grid_cell_width)
        pixel_y == MulI32(b, grid_y, self.grid_cell_height)
    IN  IF IsPanic(pixel_x) \/ IsPanic(pixel_y) THEN Panic
        ELSE Val([grid_position |-> [x |-> grid_x, y |-> grid_y],
                  pixel_position |-> [x |-> pixel_x.val, y |-> pixel_y.val]])

\* The positions computed for the entry at row y, column x of a nested storage
NestedPosition(self, x, y, b) ==
    LET grid_x == x
        grid_y == y
        pixel_x == MulI32(b, grid_x, self.grid_cell_width)
        pixel_y == MulI32(b, grid_y, self.grid_cell_height)
    IN  IF IsPanic(pixel_x) \/ IsPanic(pixel_y) THEN Panic
        ELSE Val([grid_position |-> [x |-> grid_x, y |-> grid_y],
                  pixel_position |-> [x |-> pixel_x.val, y |-> pixel_y.val]])

Position(self, at, flat, b) ==
    IF flat THEN FlatPosition(self, at, b) ELSE NestedPosition(self, at[2], at[1], b)

\* A slip in the operator below: 0 taken for the empty tile.
TileLayer_unpack_SentinelZero(self, at, v, b) ==
    LET p == Position(self, at, "Data" \in DOMAIN self.data, b)
    IN  IF IsPanic(p) THEN Panic
        ELSE Yield([id |-> IF v = 0 THEN None ELSE Some(v),
                    grid_position |-> p.val.grid_position,
                    pixel_position |-> p.val.pixel_position])

\* TileLayer::unpack, the closure: at is the index i (flat) or <<y, x>> (nested)
TileLayer_unpack(self, at, v, b) ==
    LET p == Position(self, at, "Data" \in DOMAIN self.data, b)
    IN  IF IsPanic(p) THEN Panic
        ELSE Yield([id |-> IF v = -1 THEN None ELSE Some(v),
                    grid_position |-> p.val.grid_position,
                    pixel_position |-> p.val.pixel_position])

\* TileCoordsLayer::unpack, the closure. coords[0] and coords[1] are checked
\* indexings: an entry too short for them panics.
TileCoordsLayer_unpack(self, at, coords, b) ==
    LET p == Position(self, at, "DataCoords" \in DOMAIN self.data, b)
    IN  IF IsPanic(p) THEN Panic
        ELSE IF Len(coords) < 1 THEN Panic
        ELSE IF coords[1] = -1
             THEN Yield([grid_coords |-> None, pixel_coords |-> None,
                         grid_position |-> p.val.grid_position,
                         pixel_position |-> p.val.pixel_position])
        ELSE IF Len(coords) < 2 THEN Panic
        ELSE LET grid_u == coords[1]
                 grid_v == coords[2]
                 pixel_u == MulI32(b, grid_u, self.grid_cell_width)
                 pixel_v == MulI32(b, grid_v, self.grid_cell_height)
             IN  IF IsPanic(pixel_u) \/ IsPanic(pixel_v) THEN Panic
                 ELSE Yield([grid_coords |-> Some([x |-> grid_u, y |-> grid_v]),
                             pixel_coords |-> Some([x |-> pixel_u.val, y |-> pixel_v.val]),
                             grid_position |-> p.val.grid_position,
                             pixel_position |-> p.val.pixel_position])

\* GridLayer::unpack, the closure
GridLayer_unpack(self, at, value, b) ==
    LET p == Position(self, at, "Grid" \in DOMAIN self.data, b)
    IN  IF IsPanic(p) THEN Panic
        ELSE Yield([value |-> value,
                    grid_position |-> p.val.grid_position,
                    pixel_position |-> p.val.pixel_position])

\* The layers that have an unpack method, and their storage
HasUnpack(layer) == DOMAIN layer \subseteq {"Tile", "TileCoords", "Grid"}
LayerStruct(layer) == layer[CHOOSE n \in DOMAIN layer : TRUE]
IsFlat(self) == DOMAIN self.data \subseteq {"Data", "DataCoords", "Grid"}
Payload(self) == self.data[CHOOSE n \in DOMAIN self.data : TRUE]

\* The entries the iterator walks, in its order
Entries(self) == IF IsFlat(self) THEN Enumerate(Payload(self)) ELSE EnumerateRows(Payload(self))

\* Iterator::next on the k-th entry
UnpackItem(layer, k, b) ==
    LET self == LayerStruct(layer)
        e == Entries(self)[k]
    IN  CASE "Tile" \in DOMAIN layer -> TileLayer_unpack(self, e[1], e[2], b)
          [] "TileCoords" \in DOMAIN layer -> TileCoordsLayer_unpack(self, e[1], e[2], b)
          [] "Grid" \in DOMAIN layer -> GridLayer_unpack(self, e[1], e[2], b)

----------------------------------------------------------------------------
(* Tileset::tile_coords. The steps and the counts are computed by the call, *)
(* the origins by the iterator it returns, one per next().                  *)

\* let step_x .. let tiles_y: the call, which can panic
Tileset_tile_coords(self, texture_width, texture_height, b) ==
    LET step_x == AddI32(b, self.tile_width, self.tile_separation_x)
        step_y == AddI32(b, self.tile_height, self.tile_separation_y)
    IN  IF IsPanic(step_x) \/ IsPanic(step_y) THEN Panic
        ELSE LET tiles_x == CheckedDiv(texture_width, step_x.val)
                 tiles_y == CheckedDiv(texture_height, step_y.val)
             IN  IF IsPanic(tiles_x) \/ IsPanic(tiles_y) THEN Panic
                 ELSE Val([step_x |-> step_x.val, step_y |-> step_y.val,
                           tiles_x |-> tiles_x.val, tiles_y |-> tiles_y.val])

\* 0..n as a range of Rust: empty where n <= 0
RangeLen(n) == IF n > 0 THEN n ELSE 0

\* (0..tiles_y).flat_map(|tile_y| (0..tiles_x).map(..)): the k-th
\* <<tile_y, tile_x>> the iterator visits, k from 1
TilePair(it, k) == <<(k - 1) \div it.tiles_x, (k - 1) % it.tiles_x>>

\* The closure: the origin of the tile at column tile_x, row tile_y
TileOrigin(it, tile_x, tile_y, b) ==
    LET x == MulI32(b, tile_x, it.step_x)
        y == MulI32(b, tile_y, it.step_y)
    IN  IF IsPanic(x) \/ IsPanic(y) THEN Panic
        ELSE Yield([x |-> x.val, y |-> y.val])

----------------------------------------------------------------------------
(* Documents *)

MaxLen == 6
MaxRows == 2

\* Sequences over S of length at most n
RECURSIVE SeqsUpTo(_, _)
SeqsUpTo(S, n) ==
    IF n = 0 THEN {<<>>}
    ELSE LET shorter == SeqsUpTo(S, n - 1)
         IN  shorter \cup {Append(q, x) : q \in {q \in shorter : Len(q) = n - 1}, x \in S}

JInts(q) == JArr([i \in DOMAIN q |-> JInt(q[i])])
JStrs(q) == JArr([i \in DOMAIN q |-> JStr(q[i])])

\* The entries every layer object starts with
LayerHead(name, cw, ch, cx, cy) ==
    <<  <<"name", JStr(name)>>,
        <<"_eid", JStr("10203040")>>,
        <<"offsetX", JInt(0)>>,
        <<"offsetY", JInt(0)>>,
        <<"gridCellWidth", JInt(cw)>>,
        <<"gridCellHeight", JInt(ch)>>,
        <<"gridCellsX", JInt(cx)>>,
        <<"gridCellsY", JInt(cy)>> >>

\* A tile or tile-coords layer holding `payload` under `key`, with the flags
\* the editor writes beside it
TileLayerDoc(head, key, payload, exportMode, arrayMode) ==
    JObj(head \o << <<"tileset", JStr("tiles")>>,
                    <<key, payload>>,
                    <<"exportMode", JInt(exportMode)>>,
                    <<"arrayMode", JInt(arrayMode)>> >>)

GridLayerDoc(head, key, payload, arrayMode) ==
    JObj(head \o << <<key, payload>>, <<"arrayMode", JInt(arrayMode)>> >>)

EntityDoc ==
    JObj(<< <<"name", JStr("player")>>,
            <<"id", JInt(0)>>,
            <<"_eid", JStr("50607080")>>,
            <<"x", JInt(32)>>,
            <<"y", JInt(48)>>,
            <<"originX", JInt(0)>>,
            <<"originY", JInt(0)>>,
            <<"flippedX", JBool(FALSE)>>,
            <<"nodes", JArr(<< JObj(<< <<"x", JInt(8)>>, <<"y", JInt(8)>> >>) >>)>>,
            <<"values", JObj(<< <<"speed", JInt(2)>> >>)>> >>)

EntityLayerDoc(head) == JObj(head \o << <<"entities", JArr(<<EntityDoc>>)>> >>)

DecalDoc ==
    JObj(<< <<"x", JInt(64)>>,
            <<"y", JInt(16)>>,
            <<"scaleX", JInt(1)>>,
            <<"scaleY", JInt(1)>>,
            <<"texture", JStr("tree.png")>>,
            <<"values", JObj(<<>>)>> >>)

DecalLayerDoc(head) ==
    JObj(head \o << <<"decals", JArr(<<DecalDoc>>)>>, <<"folder", JStr("decals")>> >>)

LevelDoc(layers) ==
    JObj(<< <<"ogmoVersion", JStr("3.3.0")>>,
            <<"width", JInt(64)>>,
            <<"height", JInt(32)>>,
            <<"offsetX", JInt(0)>>,
            <<"offsetY", JInt(0)>>,
            <<"values", JObj(<< <<"dark", JBool(TRUE)>>, <<"title", JStr("uno")>> >>)>>,
            <<"layers", JArr(layers)>> >>)

\* The values the unpack documents draw from: gridCellsX (zero is admitted by
\* the decoder), the cell sizes (one large enough for a product to leave i32),
\* tile ids, tile coordinates and grid cells
CellsX == {0, 1, 2, 4}
CellSizes == {<<16, 16>>, <<8, 4>>, <<1073741824, 3>>}
TileIds == {-1, 3}
CoordEntries == {<<-1>>, <<-1, -1>>, <<2, 1>>, <<5>>, <<>>}
GridCells == {"0", "1"}
IdRows == {<<>>, <<-1>>, <<3>>, <<-1, 3>>, <<3, -1, 3>>}
CoordRows == {<<>>, << <<-1>> >>, << <<2, 1>> >>, << <<5>> >>, << <<>> >>,
              << <<-1, -1>>, <<2, 1>> >>, << <<2, 1>>, <<-1>>, <<2, 1>> >>}
CellRows == {<<>>, <<"0">>, <<"1", "0">>, <<"0", "1", "1">>}

JCoords(q) == JArr([i \in DOMAIN q |-> JInts(q[i])])

UnpackLayerDocs ==
    LET heads == {LayerHead("layer", s[1], s[2], cx, 2) : s \in CellSizes, cx \in CellsX}
    IN  {TileLayerDoc(h, "data", JInts(q), 0, 0) : h \in heads, q \in SeqsUpTo(TileIds, MaxLen)}
        \cup {TileLayerDoc(h, "data2D", JArr([i \in DOMAIN q |-> JInts(q[i])]), 0, 1) :
                h \in heads, q \in SeqsUpTo(IdRows, MaxRows)}
        \cup {TileLayerDoc(h, "dataCoords", JCoords(q), 1, 0) :
                h \in heads, q \in SeqsUpTo(CoordEntries, 2)}
        \cup {TileLayerDoc(h, "dataCoords2D", JArr([i \in DOMAIN q |-> JCoords(q[i])]), 1, 1) :
                h \in heads, q \in SeqsUpTo(CoordRows, MaxRows)}
        \cup {GridLayerDoc(h, "grid", JStrs(q), 0) : h \in heads, q \in SeqsUpTo(GridCells, 3)}
        \cup {GridLayerDoc(h, "grid2D", JArr([i \in DOMAIN q |-> JStrs(q[i])]), 1) :
                h \in heads, q \in SeqsUpTo(CellRows, MaxRows)}

UnpackDocs == {LevelDoc(<<l>>) : l \in UnpackLayerDocs}

----------------------------------------------------------------------------
(* The state machine *)

NoIter == [none |-> TRUE]

FromJson ==
    /\ IsPending(level)
    /\ level' = Level_from_json(doc)
    /\ UNCHANGED <<doc, project, json, round, build, iter, records, earlier>>

\* let it = layer.unpack()
UnpackBegin ==
    /\ IsOk(level)
    /\ iter = NoIter
    /\ \E i \in DOMAIN level.ok.layers :
        /\ HasUnpack(level.ok.layers[i])
        /\ iter' = [layer |-> i, next |-> 1, state |-> "live"]
    /\ records' = <<>>
    /\ UNCHANGED <<doc, level, project, json, round, build, earlier>>

\* it.next()
UnpackNext ==
    /\ iter # NoIter
    /\ iter.state = "live"
    /\ LET layer == level.ok.layers[iter.layer]
           n == Len(Entries(LayerStruct(layer)))
       IN  IF iter.next > n
           THEN iter' = [iter EXCEPT !.state = "done"] /\ UNCHANGED records
           ELSE LET r == UnpackItem(layer, iter.next, build)
                IN  IF IsPanic(r)
                    THEN iter' = [iter EXCEPT !.state = "panicked"] /\ UNCHANGED records
                    ELSE /\ iter' = [iter EXCEPT !.next = iter.next + 1]
                         /\ records' = Append(records, r.item)
    /\ UNCHANGED <<doc, level, project, json, round, build, earlier>>

InitUnpack ==
    /\ doc \in UnpackDocs
    /\ level = Pending
    /\ project = Pending
    /\ json = Pending
    /\ round = 0
    /\ build \in {"debug", "release"}
    /\ iter = NoIter
    /\ records = <<>>
    /\ earlier = NoIter

NextUnpack == FromJson \/ UnpackBegin \/ UnpackNext

SpecUnpack == InitUnpack /\ [][NextUnpack]_vars

----------------------------------------------------------------------------
(* Calling unpack again: a level of two layers, each of which can be        *)
(* unpacked; an iterator is kept while another one is made and used.        *)

\* A nested storage with rows of the length of gridCellsX, and the flat
\* storage of the same entries: two rows of 1 or of 3 entries, the cells small
\* or so wide that the pixel position of the third column leaves i32
PairedLayerDocs ==
    LET heads == {LayerHead("layer", s[1], s[2], w, 2) : s \in {<<8, 4>>, <<1073741824, 3>>}, w \in {1, 3}}
        ids(w) == IF w = 1 THEN << <<3>>, <<-1>> >> ELSE << <<-1, 3, 3>>, <<3, -1, 3>> >>
        coords(w) == IF w = 1 THEN << << <<2, 1>> >>, << <<-1>> >> >>
                     ELSE << << <<2, 1>>, <<-1>>, <<0, 0>> >>, << <<-1, -1>>, <<2, 1>>, <<1, 0>> >> >>
        cells(w) == IF w = 1 THEN << <<"1">>, <<"0">> >> ELSE << <<"0", "1", "1">>, <<"1", "0", "0">> >>
        W(h) == First(h, "gridCellsX").num
    IN  {<<TileLayerDoc(h, "data2D", JArr([i \in 1..2 |-> JInts(ids(W(h))[i])]), 0, 1),
           TileLayerDoc(h, "data", JInts(Concat(ids(W(h)))), 0, 0)>> : h \in heads}
        \cup {<<TileLayerDoc(h, "dataCoords2D", JArr([i \in 1..2 |-> JCoords(coords(W(h))[i])]), 1, 1),
                TileLayerDoc(h, "dataCoords", JCoords(Concat(coords(W(h)))), 1, 0)>> : h \in heads}
        \cup {<<GridLayerDoc(h, "grid2D", JArr([i \in 1..2 |-> JStrs(cells(W(h))[i])]), 1),
                GridLayerDoc(h, "grid", JStrs(Concat(cells(W(h)))), 0)>> : h \in heads}

RestartDocs ==
    LET head == LayerHead("layer", 16, 8, 2, 2)
        layers == {TileLayerDoc(head, "data", JInts(<<-1, 3, 0>>), 0, 0),
                   TileLayerDoc(head, "data2D", JArr(<<JInts(<<-1, 3>>), JInts(<<0, 1>>)>>), 0, 1),
                   TileLayerDoc(head, "dataCoords", JCoords(<< <<2, 1>>, <<-1>> >>), 1, 0),
                   TileLayerDoc(head, "dataCoords2D", JArr(<<JCoords(<< <<2, 1>>, <<-1>> >>)>>), 1, 1),
                   GridLayerDoc(head, "grid", JStrs(<<"0", "1">>), 0),
                   GridLayerDoc(head, "grid2D", JArr(<<JStrs(<<"0", "1">>)>>), 1)}
    IN  {LevelDoc(<<a, b>>) : a, b \in layers} \cup {LevelDoc(p) : p \in PairedLayerDocs}

\* A slip in the action below: the new iterator goes on where the one before
\* it on that layer stopped.
UnpackAgain_SharedCursor ==
    /\ iter # NoIter
    /\ iter.state # "panicked"
    /\ earlier' = [iter |-> iter, records |-> records]
    /\ \E i \in DOMAIN level.ok.layers :
        /\ HasUnpack(level.ok.layers[i])
        /\ iter' = [layer |-> i, next |-> IF iter.layer = i THEN iter.next ELSE 1, state |-> "live"]
    /\ records' = <<>>
    /\ UNCHANGED <<doc, level, project, json, round, build>>

\* let again = layer.unpack(), the iterator of the call before still held
UnpackAgain ==
    /\ iter # NoIter
    /\ iter.state # "panicked"
    /\ earlier' = [iter |-> iter, records |-> records]
    /\ \E i \in DOMAIN level.ok.layers :
        /\ HasUnpack(level.ok.layers[i])
        /\ iter' = [layer |-> i, next |-> 1, state |-> "live"]
    /\ records' = <<>>
    /\ UNCHANGED <<doc, level, project, json, round, build>>

\* The program goes on with the iterator it held
UnpackSwitch ==
    /\ earlier # NoIter
    /\ iter.state # "panicked"
    /\ iter' = earlier.iter
    /\ records' = earlier.records
    /\ earlier' = [iter |-> iter, records |-> records]
    /\ UNCHANGED <<doc, level, project, json, round, build>>

InitRestart ==
    /\ doc \in RestartDocs
    /\ level = Pending
    /\ project = Pending
    /\ json = Pending
    /\ round = 0
    /\ build \in {"debug", "release"}
    /\ iter = NoIter
    /\ records = <<>>
    /\ earlier = NoIter

NextRestart == FromJson \/ UnpackBegin \/ UnpackNext \/ UnpackAgain \/ UnpackSwitch

SpecRestart == InitRestart /\ [][NextRestart]_vars

----------------------------------------------------------------------------
(* The documents of the round trip: the documents the editor writes, one    *)
(* per kind of layer, and every document one edit away from one of them.    *)

BaseHead == LayerHead("layer", 16, 8, 2, 2)

BaseLayerDocs ==
    {   TileLayerDoc(BaseHead, "data", JInts(<<-1, 3, 0>>), 0, 0),
        TileLayerDoc(BaseHead, "data2D", JArr(<<JInts(<<-1, 3>>), JInts(<<0, 1>>)>>), 0, 1),
        TileLayerDoc(BaseHead, "dataCoords", JCoords(<< <<2, 1>>, <<-1>> >>), 1, 0),
        TileLayerDoc(BaseHead, "dataCoords2D", JArr(<<JCoords(<< <<2, 1>>, <<-1>> >>)>>), 1, 1),
        GridLayerDoc(BaseHead, "grid", JStrs(<<"0", "1">>), 0),
        GridLayerDoc(BaseHead, "grid2D", JArr(<<JStrs(<<"0", "1">>)>>), 1),
        EntityLayerDoc(BaseHead),
        DecalLayerDoc(BaseHead) }

BaseDocs == {LevelDoc(<<l>>) : l \in BaseLayerDocs} \cup {LevelDoc(<<>>)}

\* The values an edit puts in place of a value, and the entries it adds to an
\* object (an unknown field, a null optional, a second payload, the field of
\* another kind of layer)
ValuePool ==
    {JNull, JBool(TRUE), JStr("s"), JInt(0), JInt(1), JInt(-1), JFloat(2),
     JInt(16777217), JExp(1, 39), JArr(<<>>), JObj(<<>>)}

EntryPool ==
    {   <<"extra", JInt(1)>>,
        <<"rotation", JNull>>,
        <<"rotation", JInt(90)>>,
        <<"data", JInts(<<7>>)>>,
        <<"data2D", JArr(<<JInts(<<7>>)>>)>>,
        <<"grid", JStrs(<<"1">>)>>,
        <<"entities", JArr(<<>>)>> }

RemoveAt(q, i) == [k \in 1..(Len(q) - 1) |-> IF k < i THEN q[k] ELSE q[k + 1]]

RECURSIVE Edits(_, _)
Edits(j, pool) ==
    IF IsObj(j)
    THEN LET o == j.obj
         IN  {JObj(RemoveAt(o, i)) : i \in DOMAIN o}
             \cup {JObj(<<p>> \o o) : p \in {p \in pool : ~Has(o, p[1])}}
             \cup {JObj(o \o <<p>>) : p \in {p \in pool : ~Has(o, p[1])}}
             \cup UNION {{JObj([o EXCEPT ![i] = <<o[i][1], e>>]) :
                            e \in Edits(o[i][2], pool) \cup (ValuePool \ {o[i][2]})} : i \in DOMAIN o}
    ELSE IF IsArr(j)
    THEN LET a == j.arr
         IN  UNION {{JArr([a EXCEPT ![i] = e]) : e \in Edits(a[i], pool) \cup (ValuePool \ {a[i]})} :
                        i \in DOMAIN a}
    ELSE {}

LevelDocs == BaseDocs \cup UNION {Edits(d, EntryPool) : d \in BaseDocs}

MaxRounds == 1

ToJson ==
    /\ IsOk(level)
    /\ IsPending(json)
    /\ json' = Level_to_json(level.ok)
    /\ UNCHANGED <<doc, level, project, round, build, iter, records, earlier>>

\* The output is handed to from_json again
Reload ==
    /\ IsOk(json)
    /\ round < MaxRounds
    /\ doc' = json.ok
    /\ level' = Pending
    /\ json' = Pending
    /\ round' = round + 1
    /\ UNCHANGED <<project, build, iter, records, earlier>>

Init ==
    /\ doc \in LevelDocs
    /\ level = Pending
    /\ project = Pending
    /\ json = Pending
    /\ round = 0
    /\ build = "release"
    /\ iter = NoIter
    /\ records = <<>>
    /\ earlier = NoIter

Next == FromJson \/ ToJson \/ Reload

Spec == Init /\ [][Next]_vars

----------------------------------------------------------------------------
(* The round trip of a project: a project as the editor writes it, with one *)
(* template of every kind, and every document one edit away from it.        *)

JVec2(x, y) == JObj(<< <<"x", JInt(x)>>, <<"y", JInt(y)>> >>)

ValueTemplateDocs ==
    <<  JObj(<< <<"name", JStr("dark")>>, <<"definition", JStr("Boolean")>>,
                <<"defaults", JBool(FALSE)>> >>),
        JObj(<< <<"name", JStr("speed")>>, <<"definition", JStr("Float")>>,
                <<"defaults", JFloat(1)>>, <<"bounded", JBool(TRUE)>>,
                <<"min", JInt(0)>>, <<"max", JInt(16)>> >>) >>

TemplateHead(definition, name) ==
    <<  <<"definition", JStr(definition)>>,
        <<"name", JStr(name)>>,
        <<"gridSize", JVec2(8, 8)>>,
        <<"exportID", JStr("50607080")>> >>

TileLayerTemplateDoc ==
    JObj(TemplateHead("tile", "tiles") \o
         << <<"exportMode", JInt(1)>>, <<"arrayMode", JInt(0)>>,
            <<"defaultTileset", JStr("set")>> >>)

GridLayerTemplateDoc ==
    JObj(TemplateHead("grid", "solids") \o
         << <<"arrayMode", JInt(1)>>,
            <<"legend", JObj(<< <<"0", JStr("00000000")>>, <<"1", JStr("000000ff")>> >>)>> >>)

EntityLayerTemplateDoc ==
    JObj(TemplateHead("entity", "things") \o
         << <<"requiredTags", JArr(<<>>)>>, <<"excludedTags", JArr(<<JStr("s")>>)>> >>)

DecalLayerTemplateDoc ==
    JObj(TemplateHead("decal", "decals") \o
         << <<"folder", JStr("img")>>, <<"includeImageSequence", JBool(TRUE)>>,
            <<"scaleable", JBool(TRUE)>>, <<"rotatable", JBool(FALSE)>>,
            <<"values", JArr(<<ValueTemplateDocs[1]>>)>> >>)

\* A grid template that also holds the fields of a tile template
MixedLayerTemplateDoc ==
    JObj(GridLayerTemplateDoc.obj \o
         << <<"exportMode", JInt(0)>>, <<"defaultTileset", JStr("set")>> >>)

EntityTemplateDoc ==
    JObj(<< <<"exportID", JStr("90a0b0c0")>>,
            <<"name", JStr("hero")>>,
            <<"limit", JInt(-1)>>,
            <<"size", JVec2(16, 16)>>,
            <<"origin", JVec2(0, 0)>>,
            <<"originAnchored", JBool(TRUE)>>,
            <<"shape", JObj(<< <<"label", JStr("Rectangle")>>,
                               <<"points", JArr(<<JVec2(-1, -1), JVec2(1, 1)>>)>> >>)>>,
            <<"color", JStr("ff0000ff")>>,
            <<"tileX", JBool(FALSE)>>,
            <<"tileY", JBool(FALSE)>>,
            <<"tileSize", JVec2(16, 16)>>,
            <<"resizeableX", JBool(FALSE)>>,
            <<"resizeableY", JBool(FALSE)>>,
            <<"rotatable", JBool(FALSE)>>,
            <<"rotationDegrees", JInt(360)>>,
            <<"canFlipX", JBool(FALSE)>>,
            <<"canFlipY", JBool(FALSE)>>,
            <<"canSetColor", JBool(FALSE)>>,
            <<"hasNodes", JBool(FALSE)>>,
            <<"nodeLimit", JInt(0)>>,
            <<"nodeDisplay", JInt(0)>>,
            <<"nodeGhost", JBool(TRUE)>>,
            <<"tags", JArr(<<>>)>>,
            <<"values", JArr(<<ValueTemplateDocs[2]>>)>> >>)

TilesetDoc ==
    JObj(<< <<"label", JStr("set")>>,
            <<"path", JStr("set.png")>>,
            <<"image", JStr("data:image/png;base64,")>>,
            <<"tileWidth", JInt(8)>>,
            <<"tileHeight", JInt(8)>>,
            <<"tileSeparationX", JInt(0)>>,
            <<"tileSeparationY", JInt(0)>> >>)

ProjectDoc(layers) ==
    JObj(<< <<"name", JStr("game")>>,
            <<"ogmoVersion", JStr("3.3.0")>>,
            <<"levelPaths", JArr(<<JStr(".")>>)>>,
            <<"backgroundColor", JStr("282c34ff")>>,
            <<"gridColor", JStr("3c4049cc")>>,
            <<"anglesRadians", JBool(TRUE)>>,
            <<"directoryDepth", JInt(5)>>,
            <<"layerGridDefaultSize", JVec2(8, 8)>>,
            <<"levelDefaultSize", JVec2(320, 240)>>,
            <<"levelMinSize", JVec2(128, 128)>>,
            <<"levelMaxSize", JVec2(4096, 4096)>>,
            <<"levelValues", JArr(ValueTemplateDocs)>>,
            <<"defaultExportMode", JStr(".json")>>,
            <<"compactExport", JBool(FALSE)>>,
            <<"entityTags", JArr(<<JStr("s")>>)>>,
            <<"layers", JArr(layers)>>,
            <<"entities", JArr(<<EntityTemplateDoc>>)>>,
            <<"tilesets", JArr(<<TilesetDoc>>)>> >>)

BaseProjectDoc ==
    ProjectDoc(<<TileLayerTemplateDoc, GridLayerTemplateDoc, EntityLayerTemplateDoc,
                 DecalLayerTemplateDoc>>)

\* The entries an edit adds to an object of a project
TemplateEntryPool ==
    {   <<"extra", JInt(1)>>,
        <<"texture", JNull>>,
        <<"texture", JStr("hero.png")>>,
        <<"defaultTileset", JStr("set")>> }

ProjectDocs ==
    {BaseProjectDoc, ProjectDoc(<<MixedLayerTemplateDoc>>)}
        \cup Edits(BaseProjectDoc, TemplateEntryPool)

ProjectFromJson ==
    /\ IsPending(project)
    /\ project' = Project_from_json(doc)
    /\ UNCHANGED <<doc, level, json, round, build, iter, records, earlier>>

ProjectToJson ==
    /\ IsOk(project)
    /\ IsPending(json)
    /\ json' = Project_to_json(project.ok)
    /\ UNCHANGED <<doc, level, project, round, build, iter, records, earlier>>

\* The output is handed to from_json again
ProjectReload ==
    /\ IsOk(json)
    /\ round < MaxRounds
    /\ doc' = json.ok
    /\ project' = Pending
    /\ json' = Pending
    /\ round' = round + 1
    /\ UNCHANGED <<level, build, iter, records, earlier>>

InitProject ==
    /\ doc \in ProjectDocs
    /\ level = Pending
    /\ project = Pending
    /\ json = Pending
    /\ round = 0
    /\ build = "release"
    /\ iter = NoIter
    /\ records = <<>>
    /\ earlier = NoIter

NextProject == ProjectFromJson \/ ProjectToJson \/ ProjectReload

SpecProject == InitProject /\ [][NextProject]_vars

----------------------------------------------------------------------------
(* Slicing a tileset: a project whose tileset has one of a few tile sizes   *)
(* and separations, and tile_coords called on it with one of a few texture  *)
(* sizes. A step can be zero or negative, and a sum can leave i32: the      *)
(* decoder admits every i32.                                                *)

MaxTiles == 8

\* <<tileWidth, tileHeight, tileSeparationX, tileSeparationY>>
TilesetShapes ==
    {<<16, 16, 0, 0>>, <<16, 8, 1, 0>>, <<32, 16, 0, 0>>, <<7, 5, 1, 1>>,
     <<8, 8, -8, 0>>, <<2, 2, -4, -4>>, <<MaxI32, 16, 1, 0>>}

\* <<texture_width, texture_height>>
TextureSizes ==
    {<<64, 32>>, <<33, 17>>, <<24, 8>>, <<16, 16>>, <<0, 16>>, <<-5, -5>>, <<MinI32, 16>>}

SetEntry(o, k, v) == [i \in DOMAIN o |-> IF o[i][1] = k THEN <<k, v>> ELSE o[i]]

TilesetDocOf(s) ==
    JObj(SetEntry(SetEntry(SetEntry(SetEntry(TilesetDoc.obj,
        "tileWidth", JInt(s[1])), "tileHeight", JInt(s[2])),
        "tileSeparationX", JInt(s[3])), "tileSeparationY", JInt(s[4])))

SlicingDocs ==
    {JObj(SetEntry(BaseProjectDoc.obj, "tilesets", JArr(<<TilesetDocOf(s)>>))) : s \in TilesetShapes}

\* let it = tileset.tile_coords(texture_width, texture_height), for a
\* texture of at most MaxTiles tiles
TileCoordsBegin ==
    /\ IsOk(project)
    /\ iter = NoIter
    /\ \E t \in DOMAIN project.ok.tilesets : \E size \in TextureSizes :
        LET r == Tileset_tile_coords(project.ok.tilesets[t], size[1], size[2], build)
        IN  /\ ~IsPanic(r) =>
                    /\ RangeLen(r.val.tiles_x) <= MaxTiles
                    /\ RangeLen(r.val.tiles_y) <= MaxTiles
                    /\ RangeLen(r.val.tiles_x) * RangeLen(r.val.tiles_y) <= MaxTiles
            /\ iter' = [tileset |-> t, texture |-> size, next |-> 1,
                        state |-> IF IsPanic(r) THEN "panicked" ELSE "live"]
    /\ records' = <<>>
    /\ UNCHANGED <<doc, level, project, json, round, build, earlier>>

\* it.next()
TileCoordsNext ==
    /\ iter # NoIter
    /\ iter.state = "live"
    /\ LET it == Tileset_tile_coords(project.ok.tilesets[iter.tileset],
                                     iter.texture[1], iter.texture[2], build).val
           n == RangeLen(it.tiles_x) * RangeLen(it.tiles_y)
       IN  IF iter.next > n
           THEN iter' = [iter EXCEPT !.state = "done"] /\ UNCHANGED records
           ELSE LET at == TilePair(it, iter.next)
                    r == TileOrigin(it, at[2], at[1], build)
                IN  IF IsPanic(r)
                    THEN iter' = [iter EXCEPT !.state = "panicked"] /\ UNCHANGED records
                    ELSE /\ iter' = [iter EXCEPT !.next = iter.next + 1]
                         /\ records' = Append(records, r.item)
    /\ UNCHANGED <<doc, level, project, json, round, build, earlier>>

InitSlicing ==
    /\ doc \in SlicingDocs
    /\ level = Pending
    /\ project = Pending
    /\ json = Pending
    /\ round = 0
    /\ build \in {"debug", "release"}
    /\ iter = NoIter
    /\ records = <<>>
    /\ earlier = NoIter

NextSlicing == ProjectFromJson \/ TileCoordsBegin \/ TileCoordsNext

SpecSlicing == InitSlicing /\ [][NextSlicing]_vars

----------------------------------------------------------------------------
(* Decoding alone: a document, of a level or of a project, is handed to     *)
(* Level::from_json and to Project::from_json.                              *)

InitDecode ==
    /\ doc \in LevelDocs \cup ProjectDocs
    /\ level = Pending
    /\ project = Pending
    /\ json = Pending
    /\ round = 0
    /\ build = "release"
    /\ iter = NoIter
    /\ records = <<>>
    /\ earlier = NoIter

NextDecode == FromJson \/ ProjectFromJson

SpecDecode == InitDecode /\ [][NextDecode]_vars

----------------------------------------------------------------------------
(* Both round trips: a document, of a level or of a project, is decoded,    *)
(* written and decoded again.                                               *)

NextCodec == Next \/ NextProject

SpecCodec == InitDecode /\ [][NextCodec]_vars

----------------------------------------------------------------------------
(* The canonical form of a document: what the round trip preserves.         *)

\* The payload fields of the six storage shapes and the flags that belong to
\* each: exportMode and arrayMode for tiles, arrayMode alone for grids
ShapeKeys == {"data", "data2D", "dataCoords", "dataCoords2D", "grid", "grid2D"}

ShapeFlags(k) ==
    CASE k = "data" -> << <<"exportMode", 0>>, <<"arrayMode", 0>> >>
      [] k = "data2D" -> << <<"exportMode", 0>>, <<"arrayMode", 1>> >>
      [] k = "dataCoords" -> << <<"exportMode", 1>>, <<"arrayMode", 0>> >>
      [] k = "dataCoords2D" -> << <<"exportMode", 1>>, <<"arrayMode", 1>> >>
      [] k = "grid" -> << <<"arrayMode", 0>> >>
      [] k = "grid2D" -> << <<"arrayMode", 1>> >>

NoRepeatedKey(o) == \A i, h \in DOMAIN o : o[i][1] = o[h][1] => i = h

\* The document j is written exactly as the type ty declares it: every object
\* holds its required fields, of the optional ones only those that have a
\* value (none is null), no other and no repeated field; a layer holds one
\* payload field and the flags that belong to it; a number of a float field
\* is unchanged by the conversion to f32.
RECURSIVE Exact(_, _)

ExactStruct(ty, o) ==
    LET fs == ty.fields
        named == {i \in DOMAIN fs : ~IsFlatten(fs[i])}
        flat == {i \in DOMAIN fs : IsFlatten(fs[i])}
        required == {fs[i].key : i \in {i \in named : fs[i].ty.t # "Option"}}
        optional == {fs[i].key : i \in {i \in named : fs[i].ty.t = "Option"}}
        variants == UNION {{fs[i].ty.variants[v] : v \in DOMAIN fs[i].ty.variants} : i \in flat}
        payloads == {v \in variants : Has(o, v.key)}
        flags == UNION {{ShapeFlags(v.key)[n][1] : n \in DOMAIN ShapeFlags(v.key)} : v \in payloads}
        tagkeys == IF IsSome(ty.tag) THEN {ty.tag.some[1]} ELSE {}
    IN  /\ NoRepeatedKey(o)
        /\ (required \cup tagkeys \cup flags) \subseteq Keys(o)
        /\ Keys(o) \subseteq (required \cup optional \cup tagkeys \cup flags \cup {v.key : v \in payloads})
        /\ flat # {} => Cardinality(payloads) = 1
        /\ \A i \in named : Has(o, fs[i].key) => Exact(fs[i].ty, First(o, fs[i].key))
        /\ \A v \in payloads :
            /\ Exact(v.ty, First(o, v.key))
            /\ \A n \in DOMAIN ShapeFlags(v.key) :
                LET f == First(o, ShapeFlags(v.key)[n][1])
                IN  IsNum(f) /\ "exp" \notin DOMAIN f /\ f.num = ShapeFlags(v.key)[n][2]
        /\ IsSome(ty.tag) => First(o, ty.tag.some[1]) = JStr(ty.tag.some[2])

Exact(ty, j) ==
    CASE ty.t = "f32" -> IsNum(j) /\ "exp" \notin DOMAIN j /\ AsF32(j.num) = j.num
      [] ty.t = "i32" -> IsNum(j) /\ j.lit = "int" /\ j.num >= MinI32 /\ j.num <= MaxI32
      [] ty.t = "repr" -> IsNum(j) /\ j.lit = "int" /\ j.num \in ty.values
      [] ty.t = "bool" -> IsBool(j)
      [] ty.t = "String" -> IsStr(j)
      [] ty.t = "Vec" -> IsArr(j) /\ \A i \in DOMAIN j.arr : Exact(ty.of, j.arr[i])
      [] ty.t = "Option" -> Exact(ty.of, j)
      [] ty.t = "HashMap" -> /\ IsObj(j)
                             /\ NoRepeatedKey(j.obj)
                             /\ \A i \in DOMAIN j.obj : Exact(ty.of, j.obj[i][2])
      [] ty.t = "struct" -> IsObj(j) /\ ExactStruct(ty, j.obj)
      [] ty.t = "untagged" -> \E i \in DOMAIN ty.variants : Exact(ty.variants[i].ty, j)
      [] ty.t = "tagged" ->
            /\ IsObj(j)
            /\ \E i \in DOMAIN ty.variants :
                /\ Cardinality({n \in DOMAIN j.obj : j.obj[n][1] = ty.tag}) = 1
                /\ First(j.obj, ty.tag) = JStr(ty.variants[i].name)
                /\ ExactStruct(ty.variants[i].ty, SelectSeq(j.obj, LAMBDA p : p[1] # ty.tag))

----------------------------------------------------------------------------
(* Claims *)

LayerIn(i) == First(doc.obj, "layers").arr[i].obj
LayerOut(i) == First(json.ok.obj, "layers").arr[i].obj

\* The layer object o is stored in the shape of payload field k
StoredIn(o, k) == Keys(o) \cap ShapeKeys = {k}
ModeKeys == {"exportMode", "arrayMode"}

\* C3, as claimed: an accepted layer document stored in one of the six shapes
\* is re-encoded with the payload under the same field name and with the
\* exportMode and arrayMode values the input carried.
C3_ShapeTagAsInput ==
    (round = 0 /\ IsOk(json)) =>
        \A i \in DOMAIN level.ok.layers : \A k \in ShapeKeys :
            (StoredIn(LayerIn(i), k) /\ HasUnpack(level.ok.layers[i])) =>
                /\ StoredIn(LayerOut(i), k)
                /\ \A f \in ModeKeys : Has(LayerIn(i), f) =>
                    /\ Has(LayerOut(i), f)
                    /\ Tree(First(LayerOut(i), f)) = Tree(First(LayerIn(i), f))

\* C3, amended: an accepted layer document that holds one payload field and
\* is decoded as a tile, tile-coords or grid layer is re-encoded with the
\* payload under the same field name and with the exportMode and arrayMode
\* values that belong to that field name; these are the input's values where
\* the input's flags agreed with its payload field.
C3_ShapeTagFromPayload ==
    (round = 0 /\ IsOk(json)) =>
        \A i \in DOMAIN level.ok.layers : \A k \in ShapeKeys :
            (StoredIn(LayerIn(i), k) /\ HasUnpack(level.ok.layers[i])) =>
                /\ StoredIn(LayerOut(i), k)
                /\ \A n \in DOMAIN ShapeFlags(k) :
                    LET f == ShapeFlags(k)[n][1]
                        v == ShapeFlags(k)[n][2]
                    IN  /\ Has(LayerOut(i), f)
                        /\ Tree(First(LayerOut(i), f)) = [num |-> v]
                        /\ (Has(LayerIn(i), f) /\ Tree(First(LayerIn(i), f)) = [num |-> v]) =>
                                Tree(First(LayerOut(i), f)) = Tree(First(LayerIn(i), f))

C3_Witness ==
    /\ round = 0
    /\ IsOk(json)
    /\ Len(level.ok.layers) = 1
    /\ StoredIn(LayerIn(1), "data2D")
    /\ Has(LayerIn(1), "arrayMode")
    /\ Tree(First(LayerIn(1), "arrayMode")) = [num |-> 0]
    /\ Tree(First(LayerOut(1), "arrayMode")) = [num |-> 1]

\* The output object o holds the payload under key and just these flags
EmitsTile(o, key, exportMode, arrayMode) ==
    /\ StoredIn(o, key)
    /\ Cardinality({n \in DOMAIN o : o[n][1] \in ModeKeys}) = 2
    /\ First(o, "exportMode") = JInt(exportMode)
    /\ First(o, "arrayMode") = JInt(arrayMode)

EmitsGrid(o, key, arrayMode) ==
    /\ StoredIn(o, key)
    /\ Cardinality({n \in DOMAIN o : o[n][1] \in ModeKeys}) = 1
    /\ First(o, "arrayMode") = JInt(arrayMode)
    /\ ~Has(o, "exportMode")

\* C4: a tile layer is written with (exportMode, arrayMode) = (0,0) beside
\* `data` and (0,1) beside `data2D`, a tile-coords layer with (1,0) beside
\* `dataCoords` and (1,1) beside `dataCoords2D`, a grid layer with arrayMode 0
\* beside `grid` and 1 beside `grid2D` and with no exportMode.
C4_ModeFlags ==
    IsOk(json) =>
        \A i \in DOMAIN level.ok.layers :
            LET l == level.ok.layers[i]
                o == LayerOut(i)
            IN  /\ ("Tile" \in DOMAIN l /\ "Data" \in DOMAIN l.Tile.data) => EmitsTile(o, "data", 0, 0)
                /\ ("Tile" \in DOMAIN l /\ "Data2D" \in DOMAIN l.Tile.data) => EmitsTile(o, "data2D", 0, 1)
                /\ ("TileCoords" \in DOMAIN l /\ "DataCoords" \in DOMAIN l.TileCoords.data)
                        => EmitsTile(o, "dataCoords", 1, 0)
                /\ ("TileCoords" \in DOMAIN l /\ "DataCoords2D" \in DOMAIN l.TileCoords.data)
                        => EmitsTile(o, "dataCoords2D", 1, 1)
                /\ ("Grid" \in DOMAIN l /\ "Grid" \in DOMAIN l.Grid.data) => EmitsGrid(o, "grid", 0)
                /\ ("Grid" \in DOMAIN l /\ "Grid2D" \in DOMAIN l.Grid.data) => EmitsGrid(o, "grid2D", 1)

C4_Witness ==
    /\ IsOk(json)
    /\ Len(level.ok.layers) = 1
    /\ "TileCoords" \in DOMAIN level.ok.layers[1]
    /\ "DataCoords2D" \in DOMAIN level.ok.layers[1].TileCoords.data
    /\ EmitsTile(LayerOut(1), "dataCoords2D", 1, 1)

----------------------------------------------------------------------------
(* Claims about unpack. They speak of the layer being unpacked, of the      *)
(* entries it stores, in storage order, and of the records yielded so far.  *)

Unpacking == iter # NoIter
CurLayer == level.ok.layers[iter.layer]
Cur == LayerStruct(CurLayer)

\* The stored entries in the order of the document: a flat storage as it is,
\* the rows of a nested storage one after the other
StoredEntries(self) == IF IsFlat(self) THEN Payload(self) ELSE Concat(Payload(self))

\* The number of entries in the rows before row y (counted from 0)
RECURSIVE EntriesBefore(_, _)
EntriesBefore(data, y) == IF y = 0 THEN 0 ELSE EntriesBefore(data, y - 1) + Len(data[y])

\* The <<y, x>> of the k-th entry of a nested storage
NestedIndex(data, k) ==
    CHOOSE at \in UNION {{<<y, x>> : x \in 0..(Len(data[y + 1]) - 1)} : y \in 0..(Len(data) - 1)} :
        EntriesBefore(data, at[1]) + at[2] + 1 = k

\* p is the product of a and b: no i32 is, where the product leaves i32
IsProduct(p, a, b) == ~MulOverflows(a, b) /\ p = a * b

\* C5: for a layer with flat storage and gridCellsX = W >= 1, the i-th record
\* of unpack has gridPosition (i mod W, i div W) and pixelPosition
\* (gridX * gridCellWidth, gridY * gridCellHeight).
C5_FlatFormula ==
    (Unpacking /\ IsFlat(Cur) /\ Cur.grid_cells_x >= 1) =>
        \A k \in DOMAIN records :
            LET i == k - 1
                W == Cur.grid_cells_x
                r == records[k]
            IN  /\ r.grid_position = [x |-> i % W, y |-> i \div W]
                /\ IsProduct(r.pixel_position.x, r.grid_position.x, Cur.grid_cell_width)
                /\ IsProduct(r.pixel_position.y, r.grid_position.y, Cur.grid_cell_height)

\* C6: for a layer with nested storage, the record of the element at outer
\* index y and inner index x has gridPosition (x, y) and pixelPosition
\* (x * gridCellWidth, y * gridCellHeight).
C6_NestedFormula ==
    (Unpacking /\ ~IsFlat(Cur)) =>
        \A k \in DOMAIN records :
            LET at == NestedIndex(Payload(Cur), k)
                y == at[1]
                x == at[2]
                r == records[k]
            IN  /\ r.grid_position = [x |-> x, y |-> y]
                /\ IsProduct(r.pixel_position.x, x, Cur.grid_cell_width)
                /\ IsProduct(r.pixel_position.y, y, Cur.grid_cell_height)

\* C7: for flat and nested tile storage, the k-th record of unpack has id None
\* exactly when the k-th stored value is -1, and id Some(v) of the stored
\* value v otherwise.
C7_EmptyTileSentinel ==
    (Unpacking /\ "Tile" \in DOMAIN CurLayer) =>
        \A k \in DOMAIN records :
            LET v == StoredEntries(Cur)[k]
            IN  /\ IsNone(records[k].id) <=> v = -1
                /\ v # -1 => records[k].id = Some(v)

C7_Witness ==
    /\ Unpacking
    /\ "Tile" \in DOMAIN CurLayer
    /\ iter.state = "done"
    /\ StoredEntries(Cur) = <<-1, 3, -1>>
    /\ Len(records) = 3
    /\ records[1].id = None
    /\ records[2].id = Some(3)
    /\ records[3].id = None

\* C8: for flat and nested tile-coords storage, the record of an entry whose
\* first element is -1 has gridCoords None and pixelCoords None; the record of
\* any other entry [u, v] has gridCoords (u, v) and pixelCoords
\* (u * gridCellWidth, v * gridCellHeight), whatever its position.
C8_CoordTiles ==
    (Unpacking /\ "TileCoords" \in DOMAIN CurLayer) =>
        \A k \in DOMAIN records :
            LET e == StoredEntries(Cur)[k]
                r == records[k]
            IN  /\ (Len(e) >= 1 /\ e[1] = -1) =>
                        (r.grid_coords = None /\ r.pixel_coords = None)
                /\ (Len(e) = 2 /\ e[1] # -1) =>
                        /\ r.grid_coords = Some([x |-> e[1], y |-> e[2]])
                        /\ IsSome(r.pixel_coords)
                        /\ IsProduct(r.pixel_coords.some.x, e[1], Cur.grid_cell_width)
                        /\ IsProduct(r.pixel_coords.some.y, e[2], Cur.grid_cell_height)

\* What the record r carries of the stored entry e
Carries(layer, r, e) ==
    CASE "Tile" \in DOMAIN layer -> r.id = (IF e = -1 THEN None ELSE Some(e))
      [] "TileCoords" \in DOMAIN layer ->
            r.grid_coords = (IF e[1] = -1 THEN None ELSE Some([x |-> e[1], y |-> e[2]]))
      [] "Grid" \in DOMAIN layer -> r.value = e

LexLess(p, q) == p.y < q.y \/ (p.y = q.y /\ p.x < q.x)

C10_OneRecordPerEntry ==
    Unpacking =>
        /\ iter.state # "live" => Len(records) = Len(StoredEntries(Cur))
        /\ "Grid" \in DOMAIN CurLayer =>
                \A k \in DOMAIN records : records[k].value = StoredEntries(Cur)[k]

\* C11: for every tile, tile-coords and grid layer that from_json accepts,
\* consuming the unpack sequence to its end completes without a panic.
C11_UnpackNoPanic ==
    Unpacking => iter.state # "panicked"

\* The optional attributes of an entity and of a decal: <<field, key>>
EntityOptionals ==
    {<<"width", "width">>, <<"height", "height">>, <<"origin_x", "originX">>,
     <<"origin_y", "originY">>, <<"rotation", "rotation">>, <<"flipped_x", "flippedX">>,
     <<"flipped_y", "flippedY">>, <<"nodes", "nodes">>, <<"values", "values">>}

DecalOptionals ==
    {<<"scale_x", "scaleX">>, <<"scale_y", "scaleY">>, <<"rotation", "rotation">>}

\* The record v, decoded from the object in, holds None for the attributes
\* the object lacks
AbsentIsNone(v, in, optionals) ==
    \A a \in optionals : (IsObj(in) /\ ~Has(in.obj, a[2])) => IsNone(v[a[1]])

\* The object out, written for the record v, lacks the field of an attribute
\* that is None and holds the field of an attribute that is Some (with null
\* in it where the attribute is a float that is not finite)
OmitsAbsent(v, out, optionals) ==
    /\ IsObj(out)
    /\ \A a \in optionals :
        /\ IsNone(v[a[1]]) => ~Has(out.obj, a[2])
        /\ IsSome(v[a[1]]) => Has(out.obj, a[2])

\* The records of layer i: the objects they were decoded from and the objects
\* they are written as
ItemsIn(i, key) == First(LayerIn(i), key).arr
ItemsOut(i, key) == First(LayerOut(i), key).arr

\* C12: an entity decoded from an object lacking an optional attribute holds
\* None for it, and so does a decal; the object written for it lacks the field
\* of every attribute that is None (it is never null) and holds the field of
\* every attribute that is Some.
C12_OptionalOmission ==
    IsOk(level) =>
        \A i \in DOMAIN level.ok.layers :
            LET l == level.ok.layers[i]
            IN  /\ "Entity" \in DOMAIN l =>
                    \A n \in DOMAIN l.Entity.entities :
                        /\ AbsentIsNone(l.Entity.entities[n], ItemsIn(i, "entities")[n], EntityOptionals)
                        /\ IsOk(json) =>
                            OmitsAbsent(l.Entity.entities[n], ItemsOut(i, "entities")[n], EntityOptionals)
                /\ "Decal" \in DOMAIN l =>
                    \A n \in DOMAIN l.Decal.decals :
                        /\ AbsentIsNone(l.Decal.decals[n], ItemsIn(i, "decals")[n], DecalOptionals)
                        /\ IsOk(json) =>
                            OmitsAbsent(l.Decal.decals[n], ItemsOut(i, "decals")[n], DecalOptionals)

C12_Witness ==
    /\ IsOk(level)
    /\ IsOk(json)
    /\ Len(level.ok.layers) = 1
    /\ "Entity" \in DOMAIN level.ok.layers[1]
    /\ Len(level.ok.layers[1].Entity.entities) = 1
    /\ ~Has(ItemsIn(1, "entities")[1].obj, "rotation")
    /\ ~Has(ItemsIn(1, "entities")[1].obj, "nodes")
    /\ ~Has(ItemsOut(1, "entities")[1].obj, "rotation")
    /\ ~Has(ItemsOut(1, "entities")[1].obj, "nodes")
    /\ Has(ItemsOut(1, "entities")[1].obj, "originX")

----------------------------------------------------------------------------
(* Claims about tile_coords *)

Slicing == iter # NoIter
CurTileset == project.ok.tilesets[iter.tileset]

\* The quotient of the claim, a div b rounded down, for b # 0
FloorDiv(a, b) == IF b > 0 THEN a \div b ELSE (-a) \div (-b)

\* tilesX of the claim: textureWidth div (tileWidth + tileSeparationX). Where
\* the sum leaves i32 it exceeds every texture size, and no tile fits.
TileCount(texture, size, separation) ==
    IF AddOverflows(size, separation) THEN 0
    ELSE RangeLen(FloorDiv(texture, size + separation))

\* The origins of the claim, rows outer
TileOrigins(self, texture_width, texture_height) ==
    LET tilesX == TileCount(texture_width, self.tile_width, self.tile_separation_x)
        tilesY == TileCount(texture_height, self.tile_height, self.tile_separation_y)
    IN  [k \in 1..(tilesX * tilesY) |->
            [x |-> ((k - 1) % tilesX) * (self.tile_width + self.tile_separation_x),
             y |-> ((k - 1) \div tilesX) * (self.tile_height + self.tile_separation_y)]]

\* The steps of the claim are not zero: its quotients are defined
StepNonZero(size, separation) == AddOverflows(size, separation) \/ size + separation # 0

StepsDefined(self) ==
    /\ StepNonZero(self.tile_width, self.tile_separation_x)
    /\ StepNonZero(self.tile_height, self.tile_separation_y)

\* C13: with the steps and the counts of the claim, tile_coords yields
\* exactly the origins (x * stepX, y * stepY), for y in [0, tilesY) outer and
\* x in [0, tilesX) inner, in that order.
C13_TilesetSlicing ==
    (Slicing /\ StepsDefined(CurTileset)) =>
        LET origins == TileOrigins(CurTileset, iter.texture[1], iter.texture[2])
        IN  /\ iter.state # "panicked"
            /\ Len(records) <= Len(origins)
            /\ \A k \in DOMAIN records : records[k] = origins[k]
            /\ iter.state = "done" => Len(records) = Len(origins)

----------------------------------------------------------------------------
(* Claims about the choice of a variant *)

\* The layers of the input document, where it has an array of them
LayersIn ==
    IF Has(doc.obj, "layers") /\ IsArr(First(doc.obj, "layers"))
    THEN First(doc.obj, "layers").arr ELSE <<>>

\* The variants of the untagged enum ty whose signature the value j satisfies
Matching(ty, j) == {v \in DOMAIN ty.variants : IsOk(DecodeFrom(ty.variants[v].ty, j, TRUE))}
Earliest(S) == CHOOSE v \in S : \A w \in S : v <= w

\* The input document with its layers taken out
WithoutLayers == JObj([i \in DOMAIN doc.obj |->
                        IF doc.obj[i][1] = "layers" /\ IsArr(doc.obj[i][2])
                        THEN <<"layers", JArr(<<>>)>> ELSE doc.obj[i]])

\* C14: a layer object is decoded as the earliest variant, in the order Tile,
\* TileCoords, Grid, Entity, Decal, whose signature it satisfies; a layer
\* object that satisfies more than one signature is no cause of an error.
C14_FirstMatchWins ==
    /\ IsOk(level) =>
        /\ Len(level.ok.layers) = Len(LayersIn)
        /\ \A i \in DOMAIN LayersIn :
            LET hits == Matching(Layer, LayersIn[i])
            IN  /\ hits # {}
                /\ level.ok.layers[i] =
                        MkVariant(Layer.variants[Earliest(hits)].name,
                                  DecodeFrom(Layer.variants[Earliest(hits)].ty, LayersIn[i], TRUE).ok)
    /\ IsErr(level) =>
        \/ \E i \in DOMAIN LayersIn : Matching(Layer, LayersIn[i]) = {}
        \/ IsErr(Decode(Level, WithoutLayers))

C14_Witness ==
    /\ IsOk(level)
    /\ Len(LayersIn) = 1
    /\ Matching(Layer, LayersIn[1]) = {1, 3}
    /\ "Tile" \in DOMAIN level.ok.layers[1]

----------------------------------------------------------------------------
(* Claims about rejected documents *)

\* A field of the struct ty is given in the object o with a value that does
\* not decode at the type of the field
FieldFails(ty, o) ==
    \E i \in DOMAIN ty.fields :
        /\ ~IsFlatten(ty.fields[i])
        /\ Has(o, ty.fields[i].key)
        /\ ~IsOk(DecodeFrom(ty.fields[i].ty, First(o, ty.fields[i].key), FALSE))

\* A layer object of the document satisfies none of the five signatures
NoMatch == \E i \in DOMAIN LayersIn : Matching(Layer, LayersIn[i]) = {}

\* C15: where a layer object matches none of the five signatures, or a field
\* of the document fails to decode, Level::from_json returns the error and no
\* Level; a Level it returns has one layer for every layer object of the
\* document. The same holds of the fields of a project and Project::from_json.
C15_AllOrNothing ==
    /\ (~IsPending(level) /\ (NoMatch \/ FieldFails(Level, doc.obj))) => level = Err
    /\ IsOk(level) => Len(level.ok.layers) = Len(LayersIn)
    /\ (~IsPending(project) /\ FieldFails(Project, doc.obj)) => project = Err
    /\ IsOk(project) =>
        \A f \in {"layers", "entities", "tilesets"} :
            Len(project.ok[f]) = Len(First(doc.obj, f).arr)

C15_Witness ==
    /\ level = Err
    /\ NoMatch
    /\ IsOk(Decode(Level, WithoutLayers))
    /\ project = Err
    /\ FieldFails(Project, doc.obj)

----------------------------------------------------------------------------
(* Claims about the templates of a project *)

\* The elements of the sequence under key k of the object o, each with the
\* value it was decoded to
Paired(o, k, vals) == {<<First(o, k).arr[n], vals[n]>> : n \in DOMAIN vals}

\* The value templates of an accepted project: those of the levels, of the
\* entity templates and of the decal layer templates
ValueTemplatesIn ==
    Paired(doc.obj, "levelValues", project.ok.level_values)
    \cup UNION {Paired(p[1].obj, "values", p[2].values) :
                    p \in Paired(doc.obj, "entities", project.ok.entities)}
    \cup UNION {Paired(p[1].obj, "values", p[2].Decal.values) :
                    p \in {q \in Paired(doc.obj, "layers", project.ok.layers) : "Decal" \in DOMAIN q[2]}}

ValueTemplateNames == {ValueTemplate.variants[v].name : v \in DOMAIN ValueTemplate.variants}

\* C16: every value template of an accepted project carries a `definition`
\* tag that is one of the seven names, and is decoded into the variant of
\* that name; a project with a value template whose tag is missing or is not
\* one of the seven is not accepted.
C16_ValueTemplateTag ==
    IsOk(project) =>
        \A p \in ValueTemplatesIn :
            /\ IsObj(p[1])
            /\ Has(p[1].obj, "definition")
            /\ IsStr(First(p[1].obj, "definition"))
            /\ First(p[1].obj, "definition").str \in ValueTemplateNames
            /\ First(p[1].obj, "definition").str \in DOMAIN p[2]

\* The tag the layer template value v is written with: the `definition` of
\* its variant
TagOf(v) == LayerTemplate.variants[VariantOf(LayerTemplate.variants, v)].ty.tag.some[2]

\* C17: every layer template of an accepted project carries a `definition`
\* tag and is decoded into the variant that tag names (tile, grid, entity,
\* decal); a project with a layer template whose tag names no variant is not
\* accepted.
C17_LayerTemplateTag ==
    IsOk(project) =>
        \A p \in Paired(doc.obj, "layers", project.ok.layers) :
            /\ IsObj(p[1])
            /\ Has(p[1].obj, "definition")
            /\ First(p[1].obj, "definition") = JStr(TagOf(p[2]))

----------------------------------------------------------------------------
(* Claims about fields that may be left out *)

\* The object o with the entry <<k, v>> added at its end
WithEntry(o, k, v) == JObj(o \o << <<k, v>> >>)

\* C18: a Level document with no `values` field is accepted exactly where
\* the same document with an empty `values` object is, and decodes to a
\* Level whose values mapping is empty.
C18_LevelValuesDefault ==
    (~IsPending(level) /\ ~Has(doc.obj, "values")) =>
        /\ IsOk(level) <=> IsOk(Decode(Level, WithEntry(doc.obj, "values", JObj(<<>>))))
        /\ IsOk(level) => level.ok.values = EmptyMap

C18_Witness ==
    /\ round = 0
    /\ ~Has(doc.obj, "values")
    /\ IsOk(level)
    /\ level.ok.values = EmptyMap
    /\ Len(level.ok.layers) = 1

\* The input document with an empty `values` object given to every decal
\* object that has none
FillDecal(d) ==
    IF IsObj(d) /\ ~Has(d.obj, "values") THEN WithEntry(d.obj, "values", JObj(<<>>)) ELSE d

FillLayer(l) ==
    IF ~IsObj(l) THEN l
    ELSE JObj([i \in DOMAIN l.obj |->
                IF l.obj[i][1] = "decals" /\ IsArr(l.obj[i][2])
                THEN <<"decals", JArr([n \in DOMAIN l.obj[i][2].arr |-> FillDecal(l.obj[i][2].arr[n])])>>
                ELSE l.obj[i]])

DecalsFilled ==
    JObj([i \in DOMAIN doc.obj |->
            IF doc.obj[i][1] = "layers" /\ IsArr(doc.obj[i][2])
            THEN <<"layers", JArr([n \in DOMAIN doc.obj[i][2].arr |-> FillLayer(doc.obj[i][2].arr[n])])>>
            ELSE doc.obj[i]])

\* C19: a Level document with a decal object that has no `values` field is
\* accepted where the same document with an empty `values` object in that
\* decal is, and decodes to the same Level, the decal's mapping empty.
C19_DecalValuesDefault ==
    (~IsPending(level) /\ DecalsFilled # doc) => level = Decode(Level, DecalsFilled)

\* The input document of a project with the entry <<k, v>> added where it
\* has no field k
Supplied(j, k, v) == IF Has(j.obj, k) THEN j ELSE WithEntry(j.obj, k, v)

\* C20: a project document that omits `ogmoVersion` or `compactExport` is
\* accepted wherever the same document with the omitted fields is.
C20_ProjectOptionalFields ==
    (/\ ~IsPending(project)
     /\ ~Has(doc.obj, "ogmoVersion") \/ ~Has(doc.obj, "compactExport")
     /\ IsOk(Decode(Project, Supplied(Supplied(doc, "ogmoVersion", JStr("3.3.0")),
                                      "compactExport", JBool(FALSE)))))
        => IsOk(project)

----------------------------------------------------------------------------
(* Claims about the fields of a Level document *)

LevelModelFields == {"width", "height", "offsetX", "offsetY", "values", "layers"}

\* C21: a Level document that holds exactly the fields width, height,
\* offsetX, offsetY, values and layers, each well-formed, is accepted.
C21_LevelFieldsSuffice ==
    (/\ ~IsPending(level)
     /\ Keys(doc.obj) = LevelModelFields
     /\ NoRepeatedKey(doc.obj)
     /\ ~FieldFails(Level, doc.obj)
     /\ ~NoMatch)
        => IsOk(level)

----------------------------------------------------------------------------
(* Claims about to_json *)

\* C22: Level::to_json and Project::to_json return Ok, and a document, for
\* every value that from_json produced.
C22_ToJsonOk ==
    ~IsPending(json) =>
        /\ IsOk(json)
        /\ IsObj(json.ok)
        /\ IsOk(level) \/ IsOk(project)

C22_Witness ==
    /\ round = 0
    /\ IsOk(project)
    /\ IsOk(json)
    /\ Len(project.ok.layers) = 4
    /\ IsErr(level)

----------------------------------------------------------------------------
(* Claims about calling unpack again *)

\* The sequence p is the beginning of the sequence q
IsPrefix(p, q) == Len(p) <= Len(q) /\ \A k \in DOMAIN p : p[k] = q[k]

\* Two iterators on the same layer have yielded the same records as far as
\* both have got, and all the same records once both are exhausted
SameSequence ==
    (earlier # NoIter /\ earlier.iter.layer = iter.layer) =>
        /\ IsPrefix(records, earlier.records) \/ IsPrefix(earlier.records, records)
        /\ (iter.state = "done" /\ earlier.iter.state = "done") => records = earlier.records
        /\ iter.state = "done" => IsPrefix(earlier.records, records)

----------------------------------------------------------------------------
(* Claims about what to_json writes *)

\* The value templates of the output, each with the value it was written from
ValueTemplatesOut ==
    Paired(json.ok.obj, "levelValues", project.ok.level_values)
    \cup UNION {Paired(p[1].obj, "values", p[2].values) :
                    p \in Paired(json.ok.obj, "entities", project.ok.entities)}
    \cup UNION {Paired(p[1].obj, "values", p[2].Decal.values) :
                    p \in {q \in Paired(json.ok.obj, "layers", project.ok.layers) : "Decal" \in DOMAIN q[2]}}

\* The object o carries the one `definition` tag s
Tagged(o, s) ==
    /\ Cardinality({i \in DOMAIN o : o[i][1] = "definition"}) = 1
    /\ First(o, "definition") = JStr(s)

\* C24: to_json writes every value template and every layer template with a
\* `definition` field that names its variant, and from_json of that output
\* accepts it and yields the same variants again.
C24_TagRederived ==
    /\ (IsOk(project) /\ IsOk(json)) =>
        /\ \A p \in ValueTemplatesOut : \E n \in ValueTemplateNames : n \in DOMAIN p[2] /\ Tagged(p[1].obj, n)
        /\ \A p \in Paired(json.ok.obj, "layers", project.ok.layers) : Tagged(p[1].obj, TagOf(p[2]))
    /\ (round = 1 /\ ~IsPending(project)) =>
        /\ IsOk(project)
        /\ \A p \in ValueTemplatesIn : \E n \in ValueTemplateNames : n \in DOMAIN p[2] /\ Tagged(p[1].obj, n)
        /\ \A p \in Paired(doc.obj, "layers", project.ok.layers) : Tagged(p[1].obj, TagOf(p[2]))

----------------------------------------------------------------------------
(* Further claims about tile_coords *)

\* C25: for every tileset that Project::from_json accepts and every texture
\* size, tile_coords and the iteration of its result go without a panic.
C25_TileCoordsTotal == Slicing => iter.state # "panicked"

----------------------------------------------------------------------------
(* Claims that compare the two storages *)

\* The layer `nested` stores rows that all have the length of gridCellsX >= 1,
\* and the layer `flat` is the same layer with the rows stored one after the
\* other in a flat storage
FlatOf(nested, flat) ==
    /\ DOMAIN nested = DOMAIN flat
    /\ LET n == LayerStruct(nested)
           f == LayerStruct(flat)
       IN  /\ ~IsFlat(n)
           /\ IsFlat(f)
           /\ n.grid_cells_x >= 1
           /\ \A y \in DOMAIN Payload(n) : Len(Payload(n)[y]) = n.grid_cells_x
           /\ Payload(f) = Concat(Payload(n))
           /\ \A k \in DOMAIN n \ {"data"} : n[k] = f[k]

\* The layers the two iterators are on
HeldLayer == level.ok.layers[earlier.iter.layer]

----------------------------------------------------------------------------
(* Claims about the mode flags *)

\* The input document with `exportMode` and `arrayMode` taken out of every
\* layer object
WithoutFlags(l) == IF IsObj(l) THEN JObj(SelectSeq(l.obj, LAMBDA p : p[1] \notin ModeKeys)) ELSE l

FlagsStripped ==
    JObj([i \in DOMAIN doc.obj |->
            IF doc.obj[i][1] = "layers" /\ IsArr(doc.obj[i][2])
            THEN <<"layers", JArr([n \in DOMAIN doc.obj[i][2].arr |-> WithoutFlags(doc.obj[i][2].arr[n])])>>
            ELSE doc.obj[i]])

\* C27: a level document decodes to what the same document without its
\* `exportMode` and `arrayMode` decodes to, so documents that differ in the
\* flags alone decode alike and are written alike; the flags of the output
\* are those that belong to the payload field of each layer.
C27_FlagsNotRead ==
    /\ ~IsPending(level) => level = Level_from_json(FlagsStripped)
    /\ IsOk(json) =>
        \A i \in DOMAIN level.ok.layers : \A k \in ShapeKeys :
            Has(LayerOut(i), k) =>
                /\ {f \in ModeKeys : Has(LayerOut(i), f)} = {ShapeFlags(k)[n][1] : n \in DOMAIN ShapeFlags(k)}
                /\ \A n \in DOMAIN ShapeFlags(k) :
                    Tree(First(LayerOut(i), ShapeFlags(k)[n][1])) = [num |-> ShapeFlags(k)[n][2]]

C27_Witness ==
    /\ round = 0
    /\ IsOk(json)
    /\ Len(level.ok.layers) = 1
    /\ "TileCoords" \in DOMAIN level.ok.layers[1]
    /\ Has(LayerIn(1), "exportMode")
    /\ First(LayerIn(1), "exportMode") = JStr("s")
    /\ Tree(First(LayerOut(1), "exportMode")) = [num |-> 1]

----------------------------------------------------------------------------
(* Further claims about unpack *)

----------------------------------------------------------------------------
(* Claims about the origins of the tiles *)

\* The step tileSize + separation of the claim is at least 1 (a sum beyond
\* i32 is, where the size is positive)
StepAtLeastOne(size, separation) ==
    IF AddOverflows(size, separation) THEN size > 0 ELSE size + separation >= 1

\* The texture is smaller than one step
SmallerThanStep(texture, size, separation) ==
    AddOverflows(size, separation) \/ texture < size + separation

\* 0 <= origin <= texture - step
InsideTexture(origin, texture, size, separation) ==
    /\ ~AddOverflows(size, separation)
    /\ 0 <= origin
    /\ origin <= texture - (size + separation)

\* C29: with steps of at least 1 and a texture of non-negative width and
\* height, tile_coords yields origins that lie inside the texture, one step
\* short of its right and lower edge at most, and are all distinct; it yields
\* the empty sequence where the texture is smaller than one step.
C29_OriginsInsideTexture ==
    (/\ Slicing
     /\ StepAtLeastOne(CurTileset.tile_width, CurTileset.tile_separation_x)
     /\ StepAtLeastOne(CurTileset.tile_height, CurTileset.tile_separation_y)
     /\ iter.texture[1] >= 0
     /\ iter.texture[2] >= 0)
        => /\ iter.state # "panicked"
           /\ \A k \in DOMAIN records :
                /\ InsideTexture(records[k].x, iter.texture[1], CurTileset.tile_width, CurTileset.tile_separation_x)
                /\ InsideTexture(records[k].y, iter.texture[2], CurTileset.tile_height, CurTileset.tile_separation_y)
           /\ \A k, h \in DOMAIN records : records[k] = records[h] => k = h
           /\ (\/ SmallerThanStep(iter.texture[1], CurTileset.tile_width, CurTileset.tile_separation_x)
               \/ SmallerThanStep(iter.texture[2], CurTileset.tile_height, CurTileset.tile_separation_y))
                    => records = <<>>

----------------------------------------------------------------------------
(* Claims about a second round trip *)

\* The document at hand is the output of Level::to_json, of Project::to_json
LevelOutput == round = 1 /\ Has(doc.obj, "width")
ProjectOutput == round = 1 /\ Has(doc.obj, "levelPaths")

\* C30: the output D1 of to_json(from_json(D)), for an accepted document D of
\* a level or of a project, is accepted by the from_json it came from, and
\* to_json(from_json(D1)) has the same generic JSON tree as D1.
C30_RoundTripIdempotent ==
    /\ (LevelOutput /\ ~IsPending(level)) => IsOk(level)
    /\ (ProjectOutput /\ ~IsPending(project)) => IsOk(project)
    /\ (round = 1 /\ IsOk(json)) => Tree(json.ok) = Tree(doc)

====
